---------------------------- MODULE Spec2Model ----------------------------
(***************************************************************************)
(* A model of api/gen-api.py, the binding generator of azul.                *)
(*                                                                         *)
(* Text is modelled as sequences of one-character strings, so that the      *)
(* string operations of the generator (startswith, replace, strip, split,  *)
(* concatenation with the "Az" prefix) are computed as the code computes   *)
(* them.  Ordered dictionaries are sequences of entries in insertion order.*)
(***************************************************************************)
EXTENDS Integers, Sequences, FiniteSets, TLC

(***************************************************************************)
(* Bounds of the model.                                                     *)
(***************************************************************************)
MaxStructs == 2
MaxClasses == 2
\* the largest of the numbers compared through the ordering helpers
MaxValue == 3

(***************************************************************************)
(* Program constants.                                                       *)
(***************************************************************************)
\* gen-api.py:833  "if iteration_count > 500"
MaxIterationCount == 500

\* gen-api.py:14  prefix = "Az"
prefix == <<"A", "z">>

\* gen-api.py:16-20
basic_types ==
    { <<"b","o","o","l">>, <<"c","h","a","r">>, <<"f","3","2">>, <<"f","6","4">>,
      <<"f","n">>, <<"i","1","2","8">>, <<"i","1","6">>, <<"i","3","2">>,
      <<"i","6","4">>, <<"i","8">>, <<"i","s","i","z","e">>,
      <<"s","l","i","c","e">>, <<"u","1","2","8">>, <<"u","1","6">>,
      <<"u","3","2">>, <<"u","6","4">>, <<"u","8">>, <<"(",")">>,
      <<"u","s","i","z","e">>, <<"c","_","v","o","i","d">> }

(***************************************************************************)
(* Python string primitives.                                                *)
(***************************************************************************)
\* str.startswith
StartsWith(s, p) == Len(s) >= Len(p) /\ SubSeq(s, 1, Len(p)) = p

\* str.endswith
EndsWith(s, p) == Len(s) >= Len(p) /\ SubSeq(s, Len(s) - Len(p) + 1, Len(s)) = p

\* str.replace(old, new): every non-overlapping occurrence, left to right
RECURSIVE Replace(_, _, _)
Replace(s, old, new) ==
    IF Len(s) = 0 THEN <<>>
    ELSE IF StartsWith(s, old)
         THEN new \o Replace(SubSeq(s, Len(old) + 1, Len(s)), old, new)
         ELSE <<Head(s)>> \o Replace(Tail(s), old, new)

RECURSIVE LStrip(_)
LStrip(s) == IF Len(s) > 0 /\ Head(s) = " " THEN LStrip(Tail(s)) ELSE s

RECURSIVE RStrip(_)
RStrip(s) ==
    IF Len(s) > 0 /\ s[Len(s)] = " " THEN RStrip(SubSeq(s, 1, Len(s) - 1)) ELSE s

\* str.strip
Strip(s) == RStrip(LStrip(s))

\* str.split(sep) for a one-character separator
RECURSIVE Split(_, _)
Split(s, sep) ==
    IF \E i \in 1..Len(s) : s[i] = sep
    THEN LET i == CHOOSE k \in 1..Len(s) :
                      s[k] = sep /\ \A j \in 1..(k - 1) : s[j] # sep
         IN  <<SubSeq(s, 1, i - 1)>> \o Split(SubSeq(s, i + 1, Len(s)), sep)
    ELSE <<s>>

\* character classes of the regular expressions of to_snake_case
UpperChars ==
    { "A","B","C","D","E","F","G","H","I","J","K","L","M",
      "N","O","P","Q","R","S","T","U","V","W","X","Y","Z" }

LowerChars ==
    { "a","b","c","d","e","f","g","h","i","j","k","l","m",
      "n","o","p","q","r","s","t","u","v","w","x","y","z" }

DigitChars == { "0","1","2","3","4","5","6","7","8","9" }

UpperSeq ==
    << "A","B","C","D","E","F","G","H","I","J","K","L","M",
       "N","O","P","Q","R","S","T","U","V","W","X","Y","Z" >>

LowerSeq ==
    << "a","b","c","d","e","f","g","h","i","j","k","l","m",
       "n","o","p","q","r","s","t","u","v","w","x","y","z" >>

\* str.lower on one character
LowerChar(c) ==
    IF c \in UpperChars
    THEN LowerSeq[CHOOSE k \in 1..26 : UpperSeq[k] = c]
    ELSE c

\* str.lower
Lower(s) == [i \in 1..Len(s) |-> LowerChar(s[i])]

\* the end of the longest run of lower-case letters of s that starts at i
RECURSIVE LowerRunEnd(_, _)
LowerRunEnd(s, i) ==
    IF i + 1 <= Len(s) /\ s[i + 1] \in LowerChars THEN LowerRunEnd(s, i + 1) ELSE i

\* gen-api.py:77  re.sub('(.)([A-Z][a-z]+)', r'\1_\2', name) from position i on
RECURSIVE SnakeSub1(_, _)
SnakeSub1(s, i) ==
    IF i > Len(s) THEN <<>>
    ELSE IF i + 2 <= Len(s) /\ s[i + 1] \in UpperChars /\ s[i + 2] \in LowerChars
    THEN LET e == LowerRunEnd(s, i + 2)
         IN  <<s[i], "_">> \o SubSeq(s, i + 1, e) \o SnakeSub1(s, e + 1)
    ELSE <<s[i]>> \o SnakeSub1(s, i + 1)

\* gen-api.py:78  re.sub('([a-z0-9])([A-Z])', r'\1_\2', s1) from position i on
RECURSIVE SnakeSub2(_, _)
SnakeSub2(s, i) ==
    IF i > Len(s) THEN <<>>
    ELSE IF i + 1 <= Len(s) /\ s[i] \in (LowerChars \cup DigitChars)
            /\ s[i + 1] \in UpperChars
    THEN <<s[i], "_", s[i + 1]>> \o SnakeSub2(s, i + 2)
    ELSE <<s[i]>> \o SnakeSub2(s, i + 1)

\* gen-api.py:76-78
to_snake_case(name) == Lower(SnakeSub2(SnakeSub1(name, 1), 1))

(***************************************************************************)
(* Type expressions.                                                        *)
(***************************************************************************)
\* gen-api.py:112-119
get_stripped_arg(arg) ==
    LET a1 == Replace(arg, <<"&">>, <<>>)
        a2 == Replace(a1, <<"&","m","u","t">>, <<>>)
        a3 == Replace(a2, <<"*","c","o","n","s","t">>, <<>>)
        a4 == Replace(a3, <<"*","c","o","n","s","t">>, <<>>)
        a5 == Replace(a4, <<"*","m","u","t">>, <<>>)
    IN  Strip(a5)

\* gen-api.py:109-110
is_primitive_arg(arg) == get_stripped_arg(arg) \in basic_types

\* gen-api.py:233-246  the indirection marker in front of the type
TypeStarts(arg) ==
    IF StartsWith(arg, <<"&","m","u","t">>) THEN <<"&","m","u","t"," ">>
    ELSE IF StartsWith(arg, <<"&">>) THEN <<"&">>
    ELSE IF StartsWith(arg, <<"*","c","o","n","s","t">>) THEN <<"*","c","o","n","s","t"," ">>
    ELSE IF StartsWith(arg, <<"*","m","u","t">>) THEN <<"*","m","u","t"," ">>
    ELSE <<>>

\* TypeWithoutMarker with the reference tested before the mutable reference
TypeWithoutMarkerRefFirst(arg) ==
    IF StartsWith(arg, <<"&">>) THEN Replace(arg, <<"&">>, <<>>)
    ELSE IF StartsWith(arg, <<"&","m","u","t">>) THEN Replace(arg, <<"&","m","u","t">>, <<>>)
    ELSE IF StartsWith(arg, <<"*","c","o","n","s","t">>)
    THEN Replace(arg, <<"*","c","o","n","s","t">>, <<>>)
    ELSE IF StartsWith(arg, <<"*","m","u","t">>) THEN Replace(arg, <<"*","m","u","t">>, <<>>)
    ELSE arg

\* gen-api.py:233-246  the type with the marker replaced by nothing
TypeWithoutMarker(arg) ==
    IF StartsWith(arg, <<"&","m","u","t">>) THEN Replace(arg, <<"&","m","u","t">>, <<>>)
    ELSE IF StartsWith(arg, <<"&">>) THEN Replace(arg, <<"&">>, <<>>)
    ELSE IF StartsWith(arg, <<"*","c","o","n","s","t">>)
    THEN Replace(arg, <<"*","c","o","n","s","t">>, <<>>)
    ELSE IF StartsWith(arg, <<"*","m","u","t">>) THEN Replace(arg, <<"*","m","u","t">>, <<>>)
    ELSE arg

\* gen-api.py:251-254  the parts of "[T;n]" split at ";"
ArrayParts(starts, arr) == <<starts \o <<"[">>, arr[1], <<";">> \o arr[2]>>

\* gen-api.py:248-256  the fixed-array suffix of the stripped type
AnalyzeStripped(starts, arg_type) ==
    IF StartsWith(arg_type, <<"[">>) /\ EndsWith(arg_type, <<"]">>)
    THEN ArrayParts(starts, Split(Tail(arg_type), ";"))
    ELSE <<starts, arg_type, <<>>>>

\* gen-api.py:225-256; the result is the list [starts, arg_type, ends]
analyze_type(arg) == AnalyzeStripped(TypeStarts(arg), Strip(TypeWithoutMarker(arg)))


(***************************************************************************)
(* State.                                                                   *)
(*                                                                         *)
(* apiData             the classes of the last version of the schema, as   *)
(*                     a sequence of modules in declaration order          *)
(* dll_patches,                                                             *)
(* rust_api_patches    the keys of the override tables                      *)
(* module_i, class_i   the position of the module and class loops           *)
(* code                the units emitted into the interchange artifact      *)
(* structs_map,                                                             *)
(* functions_map       the maps built by generate_rust_dll                  *)
(* sorted_class_map,                                                        *)
(* classes_not_found,                                                       *)
(* iteration_count     the locals of sort_structs_map                      *)
(* size_test           the assertions emitted by generate_size_test        *)
(* api_code            the units emitted into the binding-layer files      *)
(* const_var           the local `const` of generate_rust_api              *)
(* files               the artifacts written so far                         *)
(* pc                  the position of main()                               *)
(* exception           the exception that ended the run, or "none"         *)
(* ordering            a comparison of two values through the generated     *)
(*                     ordering helpers and their decoding in dll.rs        *)
(* analysis            a type expression, what analyze_type returns for it  *)
(*                     and what it returns for the returned base name       *)
(***************************************************************************)
VARIABLES apiData, dll_patches, rust_api_patches, module_i, class_i, code,
          structs_map, functions_map, sorted_class_map, classes_not_found,
          iteration_count, size_test, api_code, const_var, files, pc, exception,
          ordering, analysis

vars == <<apiData, dll_patches, rust_api_patches, module_i, class_i, code,
          structs_map, functions_map, sorted_class_map, classes_not_found,
          iteration_count, size_test, api_code, const_var, files, pc, exception,
          ordering, analysis>>

\* what sort_structs_map leaves alone
not_sort_vars == <<apiData, dll_patches, rust_api_patches, module_i, class_i, code,
                   functions_map, size_test, api_code, const_var, files, ordering,
                   analysis>>

\* no type expression is under analysis
NotAnalyzed == [stage |-> "none"]

(***************************************************************************)
(* The ordering helpers at run time: the text generate_rust_dll emits for   *)
(* <class>_partial_cmp and <class>_cmp encodes the result of the comparison *)
(* in a u8, and the text generate_dll_loader emits for PartialOrd and Ord   *)
(* decodes it.                                                              *)
(***************************************************************************)
\* core::cmp::Ordering and Option<Ordering>
Less    == "Less"
Equal   == "Equal"
Greater == "Greater"
None    == [some |-> FALSE, value |-> "none"]
Some(r) == [some |-> TRUE, value |-> r]

\* gen-api.py:708  match a.partial_cmp(b) { None => 0, Some(Less) => 1,
\* Some(Equal) => 2, Some(Greater) => 3 }
PartialCmpEncode(r) ==
    IF r = None THEN 0
    ELSE IF r = Some(Less) THEN 1
    ELSE IF r = Some(Equal) THEN 2
    ELSE 3

\* gen-api.py:717  match a.cmp(b) { Less => 0, Equal => 1, Greater => 2 }
CmpEncode(r) ==
    IF r = Less THEN 0
    ELSE IF r = Equal THEN 1
    ELSE 2

\* gen-api.py:963  match az_x_partial_cmp(self, rhs) { 1 => Some(Less),
\* 2 => Some(Equal), 3 => Some(Greater), _ => None }
PartialCmpDecode(n) ==
    IF n = 1 THEN Some(Less)
    ELSE IF n = 2 THEN Some(Equal)
    ELSE IF n = 3 THEN Some(Greater)
    ELSE None

\* CmpDecode with the table of the 4-valued helper
CmpDecodeFromOne(n) ==
    IF n = 1 THEN Less
    ELSE IF n = 2 THEN Equal
    ELSE Greater

\* gen-api.py:965  match az_x_cmp(self, rhs) { 0 => Less, 1 => Equal,
\* _ => Greater }
CmpDecode(n) ==
    IF n = 0 THEN Less
    ELSE IF n = 1 THEN Equal
    ELSE Greater

\* the values compared: the numbers up to MaxValue and a value that is not
\* ordered with any value, as the NaN of f32
Number(n) == [nan |-> FALSE, n |-> n]
NaN       == [nan |-> TRUE, n |-> 0]
Values    == { Number(n) : n \in 0..MaxValue } \cup {NaN}

\* gen-api.py:717  a.cmp(b) of the wrapped type, on ordered values
NativeCmp(a, b) == IF a.n < b.n THEN Less ELSE IF a.n = b.n THEN Equal ELSE Greater

\* gen-api.py:708  a.partial_cmp(b) of the wrapped type
NativePartialCmp(a, b) == IF a.nan \/ b.nan THEN None ELSE Some(NativeCmp(a, b))

\* no comparison is under way
NotCompared == [stage |-> "none"]

\* what the ordering helpers leave alone
not_ordering_vars ==
    <<apiData, dll_patches, rust_api_patches, module_i, class_i, code, structs_map,
      functions_map, sorted_class_map, classes_not_found, iteration_count, size_test,
      api_code, const_var, files, pc, exception, analysis>>

\* gen-api.py:706-709  az_x_partial_cmp(a, b) returns its u8
CallPartialCmp ==
    /\ ordering.stage = "compare"
    /\ ordering.partial_pc = "call"
    /\ ordering' = [ordering EXCEPT
                      !.partial_wire =
                          PartialCmpEncode(NativePartialCmp(ordering.a, ordering.b)) % 256,
                      !.partial_pc = "returned"]
    /\ UNCHANGED not_ordering_vars

\* gen-api.py:963  PartialOrd::partial_cmp of dll.rs decodes the u8
ReturnPartialCmp ==
    /\ ordering.stage = "compare"
    /\ ordering.partial_pc = "returned"
    /\ ordering' = [ordering EXCEPT
                      !.partial_result = PartialCmpDecode(ordering.partial_wire),
                      !.partial_pc = "decoded"]
    /\ UNCHANGED not_ordering_vars

\* gen-api.py:715-718  az_x_cmp(a, b) returns its u8; Ord is for values that
\* are totally ordered
CallCmp ==
    /\ ordering.stage = "compare"
    /\ ~ ordering.a.nan /\ ~ ordering.b.nan
    /\ ordering.cmp_pc = "call"
    /\ ordering' = [ordering EXCEPT
                      !.cmp_wire = CmpEncode(NativeCmp(ordering.a, ordering.b)) % 256,
                      !.cmp_pc = "returned"]
    /\ UNCHANGED not_ordering_vars

\* gen-api.py:965  Ord::cmp of dll.rs decodes the u8
ReturnCmp ==
    /\ ordering.stage = "compare"
    /\ ordering.cmp_pc = "returned"
    /\ ordering' = [ordering EXCEPT
                      !.cmp_result = CmpDecode(ordering.cmp_wire),
                      !.cmp_pc = "decoded"]
    /\ UNCHANGED not_ordering_vars

NextOrdering == CallPartialCmp \/ ReturnPartialCmp \/ CallCmp \/ ReturnCmp

\* two values and the two comparisons not yet made; the wires and results
\* hold a value only once their pc has moved on
InitOrdering ==
    /\ \E a, b \in Values :
          ordering = [stage |-> "compare", a |-> a, b |-> b,
                      partial_pc |-> "call", partial_wire |-> 0, partial_result |-> None,
                      cmp_pc |-> "call", cmp_wire |-> 0, cmp_result |-> Less]
    /\ apiData = <<>>
    /\ dll_patches = {}
    /\ rust_api_patches = {}
    /\ module_i = 1
    /\ class_i = 0
    /\ code = <<>>
    /\ structs_map = <<>>
    /\ functions_map = <<>>
    /\ sorted_class_map = <<>>
    /\ classes_not_found = <<>>
    /\ iteration_count = 0
    /\ size_test = <<>>
    /\ api_code = <<>>
    /\ const_var = <<>>
    /\ files = {}
    /\ pc = "run_time"
    /\ exception = "none"
    /\ analysis = NotAnalyzed

SpecOrdering == InitOrdering /\ [][NextOrdering]_vars


(***************************************************************************)
(* Names and type expressions used by the bounded inputs.                   *)
(***************************************************************************)
n_A      == <<"A">>
n_B      == <<"B">>
n_Dom    == <<"D","o","m">>
n_DomVec == <<"D","o","m","V","e","c">>

t_u8       == <<"u","8">>
t_f32      == <<"f","3","2">>
t_mut_void == <<"*","m","u","t"," ","c","_","v","o","i","d">>

\* "*mut T", "&T" and "[T;2]" for a base name T
MutPtr(t) == <<"*","m","u","t"," ">> \o t
Ref(t)    == <<"&">> \o t
Arr2(t)   == <<"[">> \o t \o <<";","2","]">>

\* an entry of the OrderedDict sequence s with the given key, dict.keys()
Keys(s) == { s[i].name : i \in 1..Len(s) }

(***************************************************************************)
(* The entries generate_rust_dll puts into structs_map.                     *)
(***************************************************************************)
\* a struct field {name: {"type": type}}
Field(name, type) == [name |-> name, type |-> type]

\* an enum variant {name: {}} or {name: {"type": type}}
Variant(name, has_type, type) == [name |-> name, has_type |-> has_type, type |-> type]

\* gen-api.py:506, 522  the handle wrapper of a boxed object
PtrStruct == << Field("ptr", t_mut_void) >>

StructEntry(class_ptr_name, ks, external, derive, fields, variants) ==
    [ name |-> class_ptr_name, keys |-> ks, external |-> external,
      derive |-> derive, struct |-> fields, enum |-> variants,
      typedef |-> ("typedef" \in ks), is_boxed_object |-> FALSE ]

(***************************************************************************)
(* sort_structs_map                                                         *)
(***************************************************************************)
\* gen-api.py:743  forward_delcarations = OrderedDict([("DomVec", "Dom")])
forward_delcarations == << <<n_DomVec, n_Dom>> >>

forward_delcarations_keys ==
    { forward_delcarations[i][1] : i \in 1..Len(forward_delcarations) }

\* gen-api.py:751, 791
found_c_is_typedef(clazz) == "typedef" \in clazz.keys /\ clazz.typedef

\* gen-api.py:752
found_c_is_boxed_object(clazz) ==
    "is_boxed_object" \in clazz.keys /\ clazz.is_boxed_object

\* gen-api.py:774, 820  neither typedef nor struct nor enum
NotEnumNorStruct(clazz) ==
    /\ ~ found_c_is_typedef(clazz)
    /\ "struct" \notin clazz.keys
    /\ "enum" \notin clazz.keys

\* gen-api.py:749-772  should_insert_struct of the first scan
ShouldInsertFirst(clazz) ==
    IF found_c_is_typedef(clazz) \/ found_c_is_boxed_object(clazz) THEN TRUE
    ELSE IF "struct" \in clazz.keys
    THEN \A i \in 1..Len(clazz.struct) :
            is_primitive_arg(prefix \o analyze_type(clazz.struct[i].type)[2])
    ELSE IF "enum" \in clazz.keys
    THEN \A i \in 1..Len(clazz.enum) :
            clazz.enum[i].has_type =>
                is_primitive_arg(prefix \o analyze_type(clazz.enum[i].type)[2])
    ELSE TRUE

\* gen-api.py:801-807, 814-818  one field or payload type against the sorted map
TypeIsResolved(raw_type, sorted) ==
    LET field_type == analyze_type(raw_type)[2]
    IN  IF ~ is_primitive_arg(field_type) /\ field_type \notin forward_delcarations_keys
        THEN (prefix \o field_type) \in Keys(sorted)
        ELSE TRUE

\* gen-api.py:790-818  should_insert_struct of a later pass
ShouldInsertLater(clazz, sorted) ==
    IF found_c_is_typedef(clazz) THEN TRUE
    ELSE IF "struct" \in clazz.keys
    THEN \A i \in 1..Len(clazz.struct) : TypeIsResolved(clazz.struct[i].type, sorted)
    ELSE IF "enum" \in clazz.keys
    THEN \A i \in 1..Len(clazz.enum) :
            clazz.enum[i].has_type => TypeIsResolved(clazz.enum[i].type, sorted)
    ELSE TRUE

\* gen-api.py:747-779  the first scan over structs_map, from entry i on;
\* the result is [sorted, not_found, raised]
RECURSIVE FirstScan(_, _, _, _)
FirstScan(map, i, sorted, not_found) ==
    IF i > Len(map) THEN [sorted |-> sorted, not_found |-> not_found, raised |-> FALSE]
    ELSE IF ~ found_c_is_boxed_object(map[i]) /\ NotEnumNorStruct(map[i])
    THEN [sorted |-> sorted, not_found |-> not_found, raised |-> TRUE]
    ELSE IF ShouldInsertFirst(map[i])
    THEN FirstScan(map, i + 1, Append(sorted, map[i]), not_found)
    ELSE FirstScan(map, i + 1, sorted, Append(not_found, map[i]))

\* a scan over classes_not_found that forgets the entries it does not admit
RECURSIVE LaterScanForgetting(_, _, _, _)
LaterScanForgetting(not_found, i, sorted, current) ==
    IF i > Len(not_found)
    THEN [sorted |-> sorted, not_found |-> current, raised |-> FALSE]
    ELSE IF ShouldInsertLater(not_found[i], sorted)
    THEN LaterScanForgetting(not_found, i + 1, Append(sorted, not_found[i]), current)
    ELSE LaterScanForgetting(not_found, i + 1, sorted, current)

\* gen-api.py:786-825  one iteration of the while loop: the scan over
\* classes_not_found, which sees the entries admitted earlier in the same scan
RECURSIVE LaterScan(_, _, _, _)
LaterScan(not_found, i, sorted, current) ==
    IF i > Len(not_found)
    THEN [sorted |-> sorted, not_found |-> current, raised |-> FALSE]
    ELSE IF NotEnumNorStruct(not_found[i])
    THEN [sorted |-> sorted, not_found |-> current, raised |-> TRUE]
    ELSE IF ShouldInsertLater(not_found[i], sorted)
    THEN LaterScan(not_found, i + 1, Append(sorted, not_found[i]), current)
    ELSE LaterScan(not_found, i + 1, sorted, Append(current, not_found[i]))

E_NotEnumNorStruct == "sort_structs_map: not enum nor struct"
E_InfiniteRecursion == "infinite recursion detected in sort_structs_map"

\* gen-api.py:741-779
SortFirstScan ==
    /\ pc = "sort_structs_map"
    /\ LET r == FirstScan(structs_map, 1, <<>>, <<>>)
       IN  /\ sorted_class_map' = r.sorted
           /\ classes_not_found' = r.not_found
           /\ pc' = IF r.raised THEN "raised" ELSE "sort_loop"
           /\ exception' = IF r.raised THEN E_NotEnumNorStruct ELSE exception
    /\ iteration_count' = 0
    /\ UNCHANGED <<structs_map, not_sort_vars>>

\* gen-api.py:784-834  one iteration of the while loop
SortIteration ==
    /\ pc = "sort_loop"
    /\ Len(classes_not_found) # 0
    /\ LET r == LaterScan(classes_not_found, 1, sorted_class_map, <<>>)
       IN  /\ sorted_class_map' = r.sorted
           /\ classes_not_found' = IF r.raised THEN classes_not_found ELSE r.not_found
           /\ iteration_count' = IF r.raised THEN iteration_count ELSE iteration_count + 1
           /\ pc' = IF r.raised \/ iteration_count + 1 > MaxIterationCount
                    THEN "raised" ELSE "sort_loop"
           /\ exception' = IF r.raised THEN E_NotEnumNorStruct
                           ELSE IF iteration_count + 1 > MaxIterationCount
                                THEN E_InfiniteRecursion
                                ELSE exception
    /\ UNCHANGED <<structs_map, not_sort_vars>>

\* gen-api.py:784, 836 and main() 1260-1262
SortReturn ==
    /\ pc = "sort_loop"
    /\ Len(classes_not_found) = 0
    /\ pc' = "sorted"
    /\ UNCHANGED <<structs_map, sorted_class_map, classes_not_found,
                   iteration_count, exception, not_sort_vars>>

NextSort == SortFirstScan \/ SortIteration \/ SortReturn


(***************************************************************************)
(* analyze_type on its own: a type expression of the schema is a base      *)
(* name, an indirection mode and an optional fixed-array arity.            *)
(***************************************************************************)
Modes == { "value", "refmut", "ref", "const", "mut" }

\* the marker the schema writes in front of a type of the mode
MarkerOf(mode) ==
    IF mode = "refmut" THEN <<"&","m","u","t"," ">>
    ELSE IF mode = "ref" THEN <<"&">>
    ELSE IF mode = "const" THEN <<"*","c","o","n","s","t"," ">>
    ELSE IF mode = "mut" THEN <<"*","m","u","t"," ">>
    ELSE <<>>

\* the arities the schema writes after the ";" of "[T;n]": none, "2", " 2"
Arities == { <<>>, <<"2">>, <<" ","2">> }

BaseNames == { n_A, n_DomVec, t_u8, <<"c","_","v","o","i","d">> }

\* the text of the type expression
TypeText(mode, arity, base) ==
    MarkerOf(mode) \o (IF arity = <<>> THEN base
                       ELSE <<"[">> \o base \o <<";">> \o arity \o <<"]">>)

\* what analyze_type leaves alone
not_analysis_vars ==
    <<apiData, dll_patches, rust_api_patches, module_i, class_i, code, structs_map,
      functions_map, sorted_class_map, classes_not_found, iteration_count, size_test,
      api_code, const_var, files, pc, exception, ordering>>

\* gen-api.py:225-256  analyze_type(arg) on the type expression
AnalyzeType ==
    /\ analysis.stage = "raw"
    /\ analysis' = [analysis EXCEPT !.stage = "analyzed",
                                    !.result = analyze_type(analysis.arg)]
    /\ UNCHANGED not_analysis_vars

\* gen-api.py:225-256  analyze_type(arg) on the base name it returned
AnalyzeBase ==
    /\ analysis.stage = "analyzed"
    /\ analysis' = [analysis EXCEPT !.stage = "again",
                                    !.again = analyze_type(analysis.result[2])]
    /\ UNCHANGED not_analysis_vars

NextTypes == AnalyzeType \/ AnalyzeBase

\* a type expression not yet analyzed; result and again hold a value only
\* once the stage has moved on
InitTypes ==
    /\ \E mode \in Modes, arity \in Arities, base \in BaseNames :
          analysis = [stage |-> "raw", mode |-> mode, arity |-> arity, base |-> base,
                      arg |-> TypeText(mode, arity, base),
                      result |-> <<>>, again |-> <<>>]
    /\ apiData = <<>>
    /\ dll_patches = {}
    /\ rust_api_patches = {}
    /\ module_i = 1
    /\ class_i = 0
    /\ code = <<>>
    /\ structs_map = <<>>
    /\ functions_map = <<>>
    /\ sorted_class_map = <<>>
    /\ classes_not_found = <<>>
    /\ iteration_count = 0
    /\ size_test = <<>>
    /\ api_code = <<>>
    /\ const_var = <<>>
    /\ files = {}
    /\ pc = "analyze_type"
    /\ exception = "none"
    /\ ordering = NotCompared

SpecTypes == InitTypes /\ [][NextTypes]_vars

(***************************************************************************)
(* The sequencer on its own: sort_structs_map started on a struct map that *)
(* generate_rust_dll can build.                                             *)
(***************************************************************************)
n_X == <<"X">>

\* the external path written for the entity called name
ExternalOf(name) == <<"e","x","t",":",":">> \o name

\* gen-api.py:514  the entry of a stack-allocated struct
StackStruct(name, types) ==
    StructEntry(prefix \o name, {"external", "derive", "doc", "struct"},
                ExternalOf(name), {},
                [i \in 1..Len(types) |-> Field("f", types[i])], <<>>)

\* gen-api.py:516  the entry of a stack-allocated enum
StackEnum(name, variants) ==
    StructEntry(prefix \o name, {"external", "derive", "doc", "enum"},
                ExternalOf(name), {}, <<>>, variants)

\* gen-api.py:522  the entry of a boxed object without an external path
Handle(name) ==
    StructEntry(prefix \o name, {"derive", "doc", "struct"}, <<>>, {}, PtrStruct, <<>>)

\* gen-api.py:487  the entry of a patched typedef
PatchedTypedef(name) ==
    StructEntry(prefix \o name, {"typedef"}, <<>>, {}, <<>>, <<>>)

SortShapes(name) ==
    IF name = n_A
    THEN { StackStruct(name, <<t_u8>>), StackStruct(name, <<n_Dom>>),
           StackStruct(name, <<n_DomVec>>), StackStruct(name, <<MutPtr(n_Dom)>>),
           StackStruct(name, <<t_u8, n_Dom>>) }
    ELSE IF name = n_Dom
    THEN { StackStruct(name, <<n_DomVec>>), StackStruct(name, <<n_A>>),
           StackStruct(name, <<MutPtr(n_A)>>),
           StackEnum(name, <<Variant("N", FALSE, <<>>), Variant("V", TRUE, t_u8)>>) }
    ELSE IF name = n_DomVec
    THEN { Handle(name), StackStruct(name, <<MutPtr(n_Dom)>>),
           StackEnum(name, <<Variant("V", TRUE, n_A)>>) }
    ELSE { PatchedTypedef(name), StackStruct(name, <<n_X>>) }

SortNames == {n_A, n_B, n_Dom, n_DomVec}

\* the struct maps of at most MaxStructs entries with distinct keys
SortInputs ==
    UNION { { m \in [1..n -> UNION { SortShapes(c) : c \in SortNames }] :
                \A i, j \in 1..n : i # j => m[i].name # m[j].name }
            : n \in 1..MaxStructs }

InitSort ==
    /\ structs_map \in SortInputs
    /\ apiData = <<>>
    /\ dll_patches = {}
    /\ rust_api_patches = {}
    /\ module_i = 1
    /\ class_i = 0
    /\ code = <<>>
    /\ functions_map = <<>>
    /\ size_test = <<>>
    /\ api_code = <<>>
    /\ const_var = <<>>
    /\ files = {}
    /\ sorted_class_map = <<>>
    /\ classes_not_found = <<>>
    /\ iteration_count = 0
    /\ pc = "sort_structs_map"
    /\ exception = "none"
    /\ ordering = NotCompared
    /\ analysis = NotAnalyzed

SpecSort == InitSort /\ [][NextSort]_vars


(***************************************************************************)
(* Properties of the sequencer.                                             *)
(***************************************************************************)
\* the field and payload type expressions of a struct map entry
FieldTypes(clazz) ==
    { clazz.struct[i].type : i \in 1..Len(clazz.struct) }
    \cup { clazz.enum[i].type : i \in { k \in 1..Len(clazz.enum) : clazz.enum[k].has_type } }

\* entry a has a field or payload that holds a value of entry b, or a fixed
\* array of them: no reference or pointer marker in front
EmbedsByValue(a, b) ==
    \E t \in FieldTypes(a) :
        /\ analyze_type(t)[1] \in { <<>>, <<"[">> }
        /\ prefix \o analyze_type(t)[2] = b.name

\* (a, b) is a pair of forward_delcarations, read in either direction
RegisteredPair(a, b) ==
    \E i \in 1..Len(forward_delcarations) :
        \/ a.name = prefix \o forward_delcarations[i][1]
           /\ b.name = prefix \o forward_delcarations[i][2]
        \/ a.name = prefix \o forward_delcarations[i][2]
           /\ b.name = prefix \o forward_delcarations[i][1]

\* a must be defined after b
MustFollow(a, b) == EmbedsByValue(a, b) /\ ~ RegisteredPair(a, b)

\* the entries reachable from the set from over MustFollow edges of map
RECURSIVE Reach(_, _)
Reach(map, from) ==
    LET more == from \cup { j \in 1..Len(map) :
                              \E i \in from : MustFollow(map[i], map[j]) }
    IN  IF more = from THEN from ELSE Reach(map, more)

\* map has a value-embedding cycle that no registered pair breaks
HasUnbrokenCycle(map) ==
    \E i \in 1..Len(map) :
        i \in Reach(map, { j \in 1..Len(map) : MustFollow(map[i], map[j]) })

\* C1: when sort_structs_map returns, every entity that embeds another one
\* by value comes after it, unless the two are a registered
\* forward-reference pair.
C1_SequencerValidity ==
    pc = "sorted" =>
        \A i, j \in 1..Len(sorted_class_map) :
            MustFollow(sorted_class_map[i], sorted_class_map[j]) => j < i

\* C2: sort_structs_map terminates; on a value-embedding cycle that no
\* registered pair breaks it ends with the cyclic-dependency error, and it
\* never returns an order without the entities of the cycle.
C2_SequencerTermination ==
    /\ iteration_count <= MaxIterationCount + 1
    /\ HasUnbrokenCycle(structs_map) =>
          /\ pc # "sorted"
          /\ pc = "raised" => exception = E_InfiniteRecursion

\* the base name of every field and payload is a primitive or a key of map
AllTypesDeclared(map) ==
    \A i \in 1..Len(map) : \A t \in FieldTypes(map[i]) :
        \/ is_primitive_arg(analyze_type(t)[2])
        \/ prefix \o analyze_type(t)[2] \in Keys(map)

\* a and b are the same entry or a embeds b by value
RECURSIVE ReachByValue(_, _)
ReachByValue(map, from) ==
    LET more == from \cup { j \in 1..Len(map) :
                              \E i \in from : EmbedsByValue(map[i], map[j]) }
    IN  IF more = from THEN from ELSE ReachByValue(map, more)

EmbeddingAcyclic(map) ==
    \A i \in 1..Len(map) :
        i \notin ReachByValue(map, { j \in 1..Len(map) : EmbedsByValue(map[i], map[j]) })

\* C3: on a schema whose field types are all primitives or declared
\* entities and whose value-embedding graph is acyclic, sort_structs_map
\* does not raise.
C3_AcyclicNeverRaises ==
    AllTypesDeclared(structs_map) /\ EmbeddingAcyclic(structs_map) => pc # "raised"


(***************************************************************************)
(* The schema.                                                              *)
(*                                                                         *)
(* A class is a record; keys is the set of keys its JSON object holds, and *)
(* the other fields are the values of those keys (a default when the key   *)
(* is absent).  A function is a record in the same way.  Operators that    *)
(* end in With, Found or Result take the value computed by their caller,   *)
(* the local variable of the code, as a parameter.                          *)
(***************************************************************************)
n_self == <<"s","e","l","f">>

\* an argument {name: type} of fn_args
Arg(name, type) == [name |-> name, type |-> type]

\* dict[key] = value on an ordered dictionary whose entries have a name
DictSet(d, entry) ==
    IF entry.name \in Keys(d)
    THEN [i \in 1..Len(d) |-> IF d[i].name = entry.name THEN entry ELSE d[i]]
    ELSE Append(d, entry)

\* the modules and classes of apiData in iteration order, as <<module, class>>
RECURSIVE ClassesFrom(_, _)
ClassesFrom(api, m) ==
    IF m > Len(api) THEN <<>>
    ELSE [i \in 1..Len(api[m].classes) |-> <<api[m].name, api[m].classes[i]>>]
         \o ClassesFrom(api, m + 1)

(***************************************************************************)
(* Registry and classification.                                             *)
(***************************************************************************)
\* class_is_stack_allocated without the test of the key "const"
class_is_stack_allocated_without_const(c) ==
    /\ "external" \in c.keys
    /\ \/ "struct_fields" \in c.keys
       \/ "enum_fields" \in c.keys
       \/ "typedef" \in c.keys

\* gen-api.py:267-269
class_is_stack_allocated(c) ==
    /\ "external" \in c.keys
    /\ \/ "struct_fields" \in c.keys
       \/ "enum_fields" \in c.keys
       \/ "typedef" \in c.keys
       \/ "const" \in c.keys

\* gen-api.py:258-259
class_is_small_enum(c) == "enum_fields" \in c.keys

\* gen-api.py:453-455, 279-281, 1179-1181
RustClassName(c) == IF "rust_class_name" \in c.keys THEN c.rust_class_name ELSE c.name

\* gen-api.py:282  the entry matches the searched name
ClassMatches(c, searched) == RustClassName(c) = searched \/ c.name = searched

\* the last of the matches hit instead of the first
FirstMatchLast(all, hit) ==
    IF hit = {} THEN <<>>
    ELSE << all[CHOOSE i \in hit : \A j \in hit : i >= j][1],
            all[CHOOSE i \in hit : \A j \in hit : i >= j][2].name >>

\* gen-api.py:283  [module_name, class_name] of the first of the matches hit
FirstMatch(all, hit) ==
    IF hit = {} THEN <<>>
    ELSE << all[CHOOSE i \in hit : \A j \in hit : i <= j][1],
            all[CHOOSE i \in hit : \A j \in hit : i <= j][2].name >>

\* gen-api.py:275-283  the scan over the classes all
MatchIn(all, searched) ==
    FirstMatch(all, { i \in 1..Len(all) : ClassMatches(all[i][2], searched) })

\* gen-api.py:274-285  [module_name, class_name] of the first match, <<>> for None
search_for_class_by_rust_class_name(api, searched) ==
    MatchIn(ClassesFrom(api, 1), searched)

(***************************************************************************)
(* Exceptions.                                                              *)
(***************************************************************************)
E_TypeNotFound == "type not found"
E_WrongSelfValue == "wrong self value"
E_NoneSubscript == "TypeError: 'NoneType' object is not subscriptable"
E_KeyError == "KeyError"
E_IndexError == "IndexError"
E_NameError == "UnboundLocalError: local variable 'const' referenced before assignment"
E_ImportNotFound == "not found!"
E_ArgTypeNotFound == "arg type not found!"

(***************************************************************************)
(* generate_rust_dll                                                        *)
(***************************************************************************)
\* a unit of emitted text: what it is, the name it defines, how its body was
\* produced and, for override text, the key of the override
Unit(kind, name, body, key) == [kind |-> kind, name |-> name, body |-> body, key |-> key]

\* an entry of functions_map: functions_map[name] = [fn_args, returns]
FnEntry(name, fn_args, returns) == [name |-> name, fn_args |-> fn_args, returns |-> returns]

\* gen-api.py:189-199, 337-345  the receiver of a method, or the exception
SelfValue(f) ==
    IF "fn_args" \notin f.keys THEN [exc |-> E_KeyError, val |-> <<>>]
    ELSE IF Len(f.fn_args) = 0 THEN [exc |-> E_IndexError, val |-> <<>>]
    ELSE IF f.fn_args[1].type \in
              { <<"v","a","l","u","e">>, <<"m","u","t"," ","v","a","l","u","e">>,
                <<"r","e","f","m","u","t">>, <<"r","e","f">> }
    THEN [exc |-> "none", val |-> f.fn_args[1].type]
    ELSE [exc |-> E_WrongSelfValue, val |-> f.fn_args[1].type]

\* gen-api.py:190-197  the receiver lowered into the first parameter
SelfArgC(self_val, class_name, class_ptr_name) ==
    IF self_val = <<"v","a","l","u","e">>
    THEN Arg(Lower(class_name), class_ptr_name)
    ELSE IF self_val = <<"m","u","t"," ","v","a","l","u","e">>
    THEN Arg(<<"m","u","t"," ">> \o Lower(class_name), class_ptr_name)
    ELSE IF self_val = <<"r","e","f","m","u","t">>
    THEN Arg(Lower(class_name), <<"&","m","u","t"," ">> \o class_ptr_name)
    ELSE Arg(Lower(class_name), <<"&">> \o class_ptr_name)

\* gen-api.py:214-219  a named argument type, found or not
ArgCFound(arg, analyzed, found) ==
    IF found = <<>> THEN [exc |-> E_TypeNotFound, arg |-> arg]
    ELSE [exc |-> "none", arg |-> Arg(arg.name, analyzed[1] \o prefix \o found[2])]

\* gen-api.py:207-219  one argument, its type analyzed
ArgCWith(arg, analyzed, api) ==
    IF is_primitive_arg(analyzed[2])
    THEN [exc |-> "none", arg |-> Arg(arg.name, analyzed[1] \o analyzed[2])]
    ELSE ArgCFound(arg, analyzed,
                   search_for_class_by_rust_class_name(api, analyzed[2]))

\* the argument this in front of the arguments rest, or the first exception
ConsArg(this, rest) ==
    IF this.exc # "none" THEN [exc |-> this.exc, args |-> <<>>]
    ELSE IF rest.exc # "none" THEN [exc |-> rest.exc, args |-> <<>>]
    ELSE [exc |-> "none", args |-> <<this.arg>> \o rest.args]

\* gen-api.py:201-221  the arguments after the receiver, from argument i on
RECURSIVE ArgsCFrom(_, _, _)
ArgsCFrom(f, i, api) ==
    IF i > Len(f.fn_args) THEN [exc |-> "none", args |-> <<>>]
    ELSE IF f.fn_args[i].name = n_self THEN ArgsCFrom(f, i + 1, api)
    ELSE ConsArg(ArgCWith(f.fn_args[i], analyze_type(f.fn_args[i].type), api),
                 ArgsCFrom(f, i + 1, api))

\* gen-api.py:188-199  the receiver sv in front of the arguments rest
WithSelfC(self_as_first_arg, sv, class_name, class_ptr_name, rest) ==
    IF self_as_first_arg /\ sv.exc # "none" THEN [exc |-> sv.exc, args |-> <<>>]
    ELSE IF rest.exc # "none" THEN [exc |-> rest.exc, args |-> <<>>]
    ELSE [exc |-> "none",
          args |-> (IF self_as_first_arg
                    THEN <<SelfArgC(sv.val, class_name, class_ptr_name)>>
                    ELSE <<>>) \o rest.args]

\* gen-api.py:185-223
fn_args_c_api(f, class_name, class_ptr_name, self_as_first_arg, api) ==
    WithSelfC(self_as_first_arg, SelfValue(f), class_name, class_ptr_name,
              IF "fn_args" \in f.keys THEN ArgsCFrom(f, 1, api)
              ELSE [exc |-> "none", args |-> <<>>])

\* gen-api.py:561, 602, 902, 931  a named type in its boundary form; None is
\* subscripted when the name is not found
BoundaryType(analyzed, found) ==
    IF found = <<>> THEN [exc |-> E_NoneSubscript, type |-> <<>>]
    ELSE [exc |-> "none", type |-> analyzed[1] \o prefix \o found[2] \o analyzed[3]]

\* gen-api.py:553-561, 594-602  a declared return type, analyzed
ReturnsWith(raw, analyzed, api) ==
    IF is_primitive_arg(analyzed[2]) THEN [exc |-> "none", type |-> raw]
    ELSE BoundaryType(analyzed, search_for_class_by_rust_class_name(api, analyzed[2]))

\* gen-api.py:550-561, 591-602  the return type of an interchange function
ReturnsC(f, default, api) ==
    IF "returns" \notin f.keys THEN [exc |-> "none", type |-> default]
    ELSE ReturnsWith(f.returns, analyze_type(f.returns), api)

\* gen-api.py:532-534, 577-579, 1106-1108  the member-scope override of the
\* stage applies
MemberPatched(patches, stage, module_name, class_name, f) ==
    /\ <<module_name, class_name, f.name>> \in patches
    /\ "use_patches" \in f.keys
    /\ stage \in f.use_patches

\* gen-api.py:484, 1081  the class-scope override of the stage applies
ClassPatched(patches, stage, module_name, c) ==
    /\ <<module_name, c.name>> \in patches
    /\ "use_patches" \in c.keys
    /\ stage \in c.use_patches

\* the name of an interchange function: to_snake_case(class_ptr_name) + "_" + fn_name
CFnName(class_ptr_name, fn_name) == to_snake_case(class_ptr_name) \o <<"_">> \o fn_name

\* gen-api.py:566-569, 604-608  functions_map[name] = ... and the function text
EmitFn(st, name, body, key, fn_args, returns) ==
    [st EXCEPT !.code = Append(@, Unit("fn", name, body, key)),
               !.functions_map = DictSet(@, FnEntry(name, fn_args, returns))]

\* gen-api.py:528-569, 574-608  one constructor or function, its override test,
\* return type and arguments computed; st is [code, structs_map, functions_map, exc]
DllFunctionWith(f, is_ctor, key, c, st, patched, rets, args) ==
    IF ~ patched /\ "fn_body" \notin f.keys THEN [st EXCEPT !.exc = E_KeyError]
    ELSE IF is_ctor /\ rets.exc # "none" THEN [st EXCEPT !.exc = rets.exc]
    ELSE IF args.exc # "none" THEN [st EXCEPT !.exc = args.exc]
    ELSE IF rets.exc # "none" THEN [st EXCEPT !.exc = rets.exc]
    ELSE EmitFn(st, CFnName(prefix \o c.name, f.name),
                IF patched THEN "patch"
                ELSE IF is_ctor /\ ~ class_is_stack_allocated(c) THEN "box_new"
                ELSE "fn_body",
                IF patched THEN key ELSE <<>>,
                args.args, rets.type)

\* gen-api.py:526-569 (is_ctor) and 572-608: the constructors or functions of
\* a class from entry i on; env is [api, patches]
RECURSIVE DllFunctions(_, _, _, _, _, _, _)
DllFunctions(fs, i, is_ctor, module_name, c, env, st) ==
    IF i > Len(fs) \/ st.exc # "none" THEN st
    ELSE DllFunctions(fs, i + 1, is_ctor, module_name, c, env,
            DllFunctionWith(fs[i], is_ctor, <<module_name, c.name, fs[i].name>>, c, st,
                MemberPatched(env.patches, "dll", module_name, c.name, fs[i]),
                ReturnsC(fs[i], IF is_ctor THEN prefix \o c.name ELSE <<>>, env.api),
                fn_args_c_api(fs[i], c.name, prefix \o c.name, ~ is_ctor, env.api)))


\* str.__contains__
RECURSIVE Contains(_, _)
Contains(s, sub) ==
    IF Len(s) < Len(sub) THEN FALSE
    ELSE StartsWith(s, sub) \/ Contains(Tail(s), sub)

\* gen-api.py:610-612, 1183-1185
Lifetime(c) ==
    IF Contains(RustClassName(c), <<"<","'","a",">">>) THEN <<"<","'","a",">">> ELSE <<>>

\* gen-api.py:459-461, 1070-1072
class_can_be_cloned(c) == IF "clone" \in c.keys THEN c.clone ELSE TRUE

\* gen-api.py:467-473, 1058-1064  "derive" in c.keys() and name in c["derive"]
Derives(c, name) == "derive" \in c.keys /\ name \in c.derive

\* gen-api.py:475, 1068
class_is_typedef(c) == "typedef" \in c.keys /\ c.typedef

\* gen-api.py:476, 1069
treat_external_as_ptr(c) ==
    "external" \in c.keys /\ "is_boxed_object" \in c.keys /\ c.is_boxed_object

\* gen-api.py:463-465
StructDerive(c) == IF "derive" \in c.keys THEN c.derive ELSE {}

\* gen-api.py:503-522  the text of the layout of the class
LayoutUnit(c) ==
    IF "external" \notin c.keys THEN Unit("struct", prefix \o c.name, "ptr", <<>>)
    ELSE IF "const" \in c.keys THEN Unit("static", prefix \o c.name, "const", <<>>)
    ELSE IF class_is_stack_allocated(c) \/ treat_external_as_ptr(c)
    THEN Unit("type", prefix \o c.name, "external", <<>>)
    ELSE Unit("struct", prefix \o c.name, "pub_ptr", <<>>)

\* LayoutEntry with the entry of line 522, which has no key "external", also
\* for the boxed classes of line 506
LayoutEntryBoxedWithoutExternal(c) ==
    IF "external" \notin c.keys \/ ~ class_is_stack_allocated(c)
    THEN StructEntry(prefix \o c.name, {"derive", "doc", "struct"},
                     <<>>, StructDerive(c), PtrStruct, <<>>)
    ELSE IF "struct_fields" \in c.keys
    THEN StructEntry(prefix \o c.name, {"external", "derive", "doc", "struct"},
                     c.external, StructDerive(c), c.struct_fields, <<>>)
    ELSE StructEntry(prefix \o c.name, {"external", "derive", "doc", "enum"},
                     c.external, StructDerive(c), <<>>, c.enum_fields)

\* gen-api.py:506, 514, 516, 522  the entry of the class in structs_map
LayoutEntry(c) ==
    IF "external" \notin c.keys
    THEN StructEntry(prefix \o c.name, {"derive", "doc", "struct"},
                     <<>>, StructDerive(c), PtrStruct, <<>>)
    ELSE IF ~ class_is_stack_allocated(c)
    THEN StructEntry(prefix \o c.name, {"external", "derive", "doc", "struct"},
                     c.external, StructDerive(c), PtrStruct, <<>>)
    ELSE IF "struct_fields" \in c.keys
    THEN StructEntry(prefix \o c.name, {"external", "derive", "doc", "struct"},
                     c.external, StructDerive(c), c.struct_fields, <<>>)
    ELSE StructEntry(prefix \o c.name, {"external", "derive", "doc", "enum"},
                     c.external, StructDerive(c), <<>>, c.enum_fields)

\* gen-api.py:501-523  the class has an entry in structs_map
HasLayoutEntry(c) ==
    \/ "external" \notin c.keys
    \/ /\ "const" \notin c.keys
       /\ \/ ~ class_is_stack_allocated(c)
          \/ "struct_fields" \in c.keys
          \/ "enum_fields" \in c.keys

\* gen-api.py:501-523  the layout of the class
DllLayout(c, st) ==
    IF HasLayoutEntry(c)
    THEN [st EXCEPT !.code = Append(@, LayoutUnit(c)),
                    !.structs_map = DictSet(@, LayoutEntry(c))]
    ELSE [st EXCEPT !.code = Append(@, LayoutUnit(c))]

s_delete    == <<"_","d","e","l","e","t","e">>
s_deep_copy == <<"_","d","e","e","p","_","c","o","p","y">>
s_downcast  == <<"_","d","o","w","n","c","a","s","t">>
s_fmt_debug == <<"_","f","m","t","_","d","e","b","u","g">>
s_partial_eq  == <<"_","p","a","r","t","i","a","l","_","e","q">>
s_partial_cmp == <<"_","p","a","r","t","i","a","l","_","c","m","p">>
s_cmp  == <<"_","c","m","p">>
s_hash == <<"_","h","a","s","h">>

\* a helper function of a class; a private one is not put into functions_map
Helper(name, body, private, fn_args, returns) ==
    [name |-> name, body |-> body, private |-> private, fn_args |-> fn_args,
     returns |-> returns]

\* the argument lists of the helper functions
ObjectMut(ptr) == <<Arg(<<"o","b","j","e","c","t">>, <<"&","m","u","t"," ">> \o ptr)>>
ObjectRef(ptr) == <<Arg(<<"o","b","j","e","c","t">>, <<"&">> \o ptr)>>
PtrMut(ptr) == <<Arg(<<"p","t","r">>, <<"&","m","u","t"," ">> \o ptr)>>
TwoRefs(ptr) == <<Arg(<<"a">>, <<"&">> \o ptr), Arg(<<"b">>, <<"&">> \o ptr)>>

\* gen-api.py:625-642  the body of the destructor of a stack-allocated class
DeleteBody(c) ==
    IF "destructor" \in c.keys THEN "destructor"
    ELSE IF class_is_small_enum(c) THEN "match_enum"
    ELSE "empty"

\* DllMemory with a struct of primitive fields taken as copyable, whatever it
\* derives: no destructor and no copy function for it
DllMemoryPrimitivesCopied(c, snake, ptr) ==
    IF class_is_stack_allocated(c)
    THEN IF \/ Derives(c, "Copy") \/ "const" \in c.keys \/ class_is_typedef(c)
            \/ /\ "struct_fields" \in c.keys
               /\ \A i \in 1..Len(c.struct_fields) :
                     is_primitive_arg(analyze_type(c.struct_fields[i].type)[2])
         THEN <<>>
         ELSE << Helper(snake \o s_delete, DeleteBody(c), FALSE, ObjectMut(ptr), <<>>) >>
              \o (IF class_can_be_cloned(c) /\ Lifetime(c) = <<>>
                  THEN << Helper(snake \o s_deep_copy, "clone", FALSE, ObjectRef(ptr), ptr) >>
                  ELSE <<>>)
    ELSE << Helper(snake \o s_delete, "box_from_raw", FALSE, PtrMut(ptr), <<>>),
            Helper(snake \o s_downcast, "box_from_raw", TRUE, <<>>, <<>>),
            Helper(snake \o s_downcast \o <<"_","r","e","f","m","u","t">>, "deref_mut",
                   TRUE, <<>>, <<>>),
            Helper(snake \o s_downcast \o <<"_","r","e","f">>, "deref", TRUE, <<>>, <<>>) >>

\* DllMemory with the typedef test on the presence of the key, whatever its
\* value
DllMemoryTypedefKey(c, snake, ptr) ==
    IF class_is_stack_allocated(c)
    THEN IF Derives(c, "Copy") \/ "const" \in c.keys \/ "typedef" \in c.keys
         THEN <<>>
         ELSE << Helper(snake \o s_delete, DeleteBody(c), FALSE, ObjectMut(ptr), <<>>) >>
              \o (IF class_can_be_cloned(c) /\ Lifetime(c) = <<>>
                  THEN << Helper(snake \o s_deep_copy, "clone", FALSE, ObjectRef(ptr), ptr) >>
                  ELSE <<>>)
    ELSE << Helper(snake \o s_delete, "box_from_raw", FALSE, PtrMut(ptr), <<>>),
            Helper(snake \o s_downcast, "box_from_raw", TRUE, <<>>, <<>>),
            Helper(snake \o s_downcast \o <<"_","r","e","f","m","u","t">>, "deref_mut",
                   TRUE, <<>>, <<>>),
            Helper(snake \o s_downcast \o <<"_","r","e","f">>, "deref", TRUE, <<>>, <<>>) >>

\* gen-api.py:614-681  destructor, copy and accessors of the class whose
\* to_snake_case(class_ptr_name) is snake and whose class_ptr_name is ptr
DllMemory(c, snake, ptr) ==
    IF class_is_stack_allocated(c)
    THEN IF Derives(c, "Copy") \/ "const" \in c.keys \/ class_is_typedef(c)
         THEN <<>>
         ELSE << Helper(snake \o s_delete, DeleteBody(c), FALSE, ObjectMut(ptr), <<>>) >>
              \o (IF class_can_be_cloned(c) /\ Lifetime(c) = <<>>
                  THEN << Helper(snake \o s_deep_copy, "clone", FALSE, ObjectRef(ptr), ptr) >>
                  ELSE <<>>)
    ELSE << Helper(snake \o s_delete, "box_from_raw", FALSE, PtrMut(ptr), <<>>),
            Helper(snake \o s_downcast, "box_from_raw", TRUE, <<>>, <<>>),
            Helper(snake \o s_downcast \o <<"_","r","e","f","m","u","t">>, "deref_mut",
                   TRUE, <<>>, <<>>),
            Helper(snake \o s_downcast \o <<"_","r","e","f">>, "deref", TRUE, <<>>, <<>>) >>

\* DllCapabilities with the debug helper of a boxed class formatting the
\* handle itself, as for a stack-allocated class
DllCapabilitiesDebugDirect(c, snake, ptr) ==
    (IF Derives(c, "Debug")
     THEN << Helper(snake \o s_fmt_debug, "format_object",
                    FALSE, ObjectRef(ptr), <<"A","z","S","t","r","i","n","g">>) >>
     ELSE <<>>)
    \o (IF Derives(c, "PartialEq")
        THEN << Helper(snake \o s_partial_eq, "eq", FALSE, TwoRefs(ptr), <<"b","o","o","l">>) >>
        ELSE <<>>)
    \o (IF Derives(c, "PartialOrd")
        THEN << Helper(snake \o s_partial_cmp, "partial_cmp", FALSE, TwoRefs(ptr), <<"u","8">>) >>
        ELSE <<>>)
    \o (IF Derives(c, "Ord")
        THEN << Helper(snake \o s_cmp, "cmp", FALSE, TwoRefs(ptr), <<"u","8">>) >>
        ELSE <<>>)
    \o (IF Derives(c, "Hash")
        THEN << Helper(snake \o s_hash, "hash", FALSE, ObjectRef(ptr), <<"u","6","4">>) >>
        ELSE <<>>)

\* DllCapabilities with a helper for the full-equality capability too
DllCapabilitiesWithEq(c, snake, ptr) ==
    (IF Derives(c, "Debug")
     THEN << Helper(snake \o s_fmt_debug,
                    IF class_is_stack_allocated(c) THEN "format_object" ELSE "downcast_ref",
                    FALSE, ObjectRef(ptr), <<"A","z","S","t","r","i","n","g">>) >>
     ELSE <<>>)
    \o (IF Derives(c, "PartialEq")
        THEN << Helper(snake \o s_partial_eq, "eq", FALSE, TwoRefs(ptr), <<"b","o","o","l">>) >>
        ELSE <<>>)
    \o (IF Derives(c, "Eq")
        THEN << Helper(snake \o <<"_","e","q">>, "eq", FALSE, TwoRefs(ptr), <<"b","o","o","l">>) >>
        ELSE <<>>)
    \o (IF Derives(c, "PartialOrd")
        THEN << Helper(snake \o s_partial_cmp, "partial_cmp", FALSE, TwoRefs(ptr), <<"u","8">>) >>
        ELSE <<>>)
    \o (IF Derives(c, "Ord")
        THEN << Helper(snake \o s_cmp, "cmp", FALSE, TwoRefs(ptr), <<"u","8">>) >>
        ELSE <<>>)
    \o (IF Derives(c, "Hash")
        THEN << Helper(snake \o s_hash, "hash", FALSE, ObjectRef(ptr), <<"u","6","4">>) >>
        ELSE <<>>)

\* gen-api.py:683-727  the capability helpers of the class
DllCapabilities(c, snake, ptr) ==
    (IF Derives(c, "Debug")
     THEN << Helper(snake \o s_fmt_debug,
                    IF class_is_stack_allocated(c) THEN "format_object" ELSE "downcast_ref",
                    FALSE, ObjectRef(ptr), <<"A","z","S","t","r","i","n","g">>) >>
     ELSE <<>>)
    \o (IF Derives(c, "PartialEq")
        THEN << Helper(snake \o s_partial_eq, "eq", FALSE, TwoRefs(ptr), <<"b","o","o","l">>) >>
        ELSE <<>>)
    \o (IF Derives(c, "PartialOrd")
        THEN << Helper(snake \o s_partial_cmp, "partial_cmp", FALSE, TwoRefs(ptr), <<"u","8">>) >>
        ELSE <<>>)
    \o (IF Derives(c, "Ord")
        THEN << Helper(snake \o s_cmp, "cmp", FALSE, TwoRefs(ptr), <<"u","8">>) >>
        ELSE <<>>)
    \o (IF Derives(c, "Hash")
        THEN << Helper(snake \o s_hash, "hash", FALSE, ObjectRef(ptr), <<"u","6","4">>) >>
        ELSE <<>>)

\* EmitHelpers with every helper put into functions_map, the private
\* accessors too
RECURSIVE EmitHelpersAllRegistered(_, _, _)
EmitHelpersAllRegistered(st, hs, i) ==
    IF i > Len(hs) THEN st
    ELSE EmitHelpersAllRegistered(
            EmitFn(st, hs[i].name, hs[i].body, <<>>, hs[i].fn_args, hs[i].returns),
            hs, i + 1)

\* the helper functions hs emitted from the i-th on
RECURSIVE EmitHelpers(_, _, _)
EmitHelpers(st, hs, i) ==
    IF i > Len(hs) THEN st
    ELSE EmitHelpers(
            IF hs[i].private
            THEN [st EXCEPT !.code = Append(@, Unit("private_fn", hs[i].name, hs[i].body, <<>>))]
            ELSE EmitFn(st, hs[i].name, hs[i].body, <<>>, hs[i].fn_args, hs[i].returns),
            hs, i + 1)

\* gen-api.py:614-727  the helpers of the class, after its members
DllHelpers(c, snake, st) ==
    IF st.exc # "none" THEN st
    ELSE EmitHelpers(st, DllMemory(c, snake, prefix \o c.name)
                         \o DllCapabilities(c, snake, prefix \o c.name), 1)

\* gen-api.py:526-608  the constructors and then the functions of the class
DllMembers(module_name, c, env, st) ==
    DllFunctions(IF "functions" \in c.keys THEN c.functions ELSE <<>>, 1, FALSE,
                 module_name, c, env,
                 DllFunctions(IF "constructors" \in c.keys THEN c.constructors ELSE <<>>,
                              1, TRUE, module_name, c, env, st))

\* gen-api.py:484-488  the class-scope override replaces the class
DllClassPatch(module_name, c, st) ==
    IF class_is_typedef(c)
    THEN [st EXCEPT !.code = Append(@, Unit("patch", <<>>, "patch", <<module_name, c.name>>)),
                    !.structs_map = DictSet(@, PatchedTypedef(c.name))]
    ELSE [st EXCEPT !.code = Append(@, Unit("patch", <<>>, "patch", <<module_name, c.name>>))]

\* gen-api.py:448-727  the body of the class loop; env is [api, patches] and
\* st is [code, structs_map, functions_map, exc]
DllClass(module_name, c, env, st) ==
    IF ClassPatched(env.patches, "dll", module_name, c)
    THEN DllClassPatch(module_name, c, st)
    ELSE DllHelpers(c, to_snake_case(prefix \o c.name),
                    DllMembers(module_name, c, env, DllLayout(c, st)))

n_use_patches == <<"u","s","e","_","p","a","t","c","h","e","s">>

\* gen-api.py:444  the module-scope test reads the classes of the module:
\* "use_patches" in module.keys() and "dll" in module["use_patches"]
ModulePatched(patches, stage, module) ==
    /\ <<module.name>> \in patches
    /\ \E i \in 1..Len(module.classes) :
          /\ module.classes[i].name = n_use_patches
          /\ stage \in module.classes[i].keys

\* the key of the global override, tuple(['*'])
GlobalKey == << <<"*">> >>

\* gen-api.py:425-439
GenDllStart ==
    /\ pc = "main"
    /\ code' = IF GlobalKey \in dll_patches
               THEN <<Unit("patch", <<>>, "patch", GlobalKey)>> ELSE <<>>
    /\ structs_map' = <<>>
    /\ functions_map' = <<>>
    /\ module_i' = 1
    /\ class_i' = 0
    /\ pc' = "generate_rust_dll"
    /\ UNCHANGED <<analysis, ordering, apiData, dll_patches, rust_api_patches, sorted_class_map,
                   classes_not_found, iteration_count, size_test, api_code,
                   const_var, files, exception>>

\* gen-api.py:441-448  the head of the module loop
GenDllModule ==
    /\ pc = "generate_rust_dll"
    /\ class_i = 0
    /\ module_i <= Len(apiData)
    /\ IF ModulePatched(dll_patches, "dll", apiData[module_i])
       THEN /\ code' = Append(code, Unit("patch", <<>>, "patch", <<apiData[module_i].name>>))
            /\ module_i' = module_i + 1
            /\ class_i' = 0
       ELSE /\ code' = code
            /\ module_i' = IF Len(apiData[module_i].classes) = 0
                           THEN module_i + 1 ELSE module_i
            /\ class_i' = IF Len(apiData[module_i].classes) = 0 THEN 0 ELSE 1
    /\ UNCHANGED <<analysis, ordering, apiData, dll_patches, rust_api_patches, structs_map, functions_map,
                   sorted_class_map, classes_not_found, iteration_count, size_test,
                   api_code, const_var, files, pc, exception>>

\* the state after the class loop body returned r; last: the class is the
\* last one of its module
GenDllClassResult(r, last) ==
    /\ code' = r.code
    /\ structs_map' = r.structs_map
    /\ functions_map' = r.functions_map
    /\ exception' = r.exc
    /\ pc' = IF r.exc # "none" THEN "raised" ELSE pc
    /\ class_i' = IF r.exc # "none" THEN class_i
                  ELSE IF last THEN 0 ELSE class_i + 1
    /\ module_i' = IF r.exc = "none" /\ last THEN module_i + 1 ELSE module_i

\* gen-api.py:448-727  one iteration of the class loop
GenDllClass ==
    /\ pc = "generate_rust_dll"
    /\ class_i >= 1
    /\ GenDllClassResult(
          DllClass(apiData[module_i].name, apiData[module_i].classes[class_i],
                   [api |-> apiData, patches |-> dll_patches],
                   [code |-> code, structs_map |-> structs_map,
                    functions_map |-> functions_map, exc |-> "none"]),
          class_i = Len(apiData[module_i].classes))
    /\ UNCHANGED <<analysis, ordering, apiData, dll_patches, rust_api_patches, sorted_class_map,
                   classes_not_found, iteration_count, size_test, api_code,
                   const_var, files>>

\* gen-api.py:729 and main() 1258-1260
GenDllReturn ==
    /\ pc = "generate_rust_dll"
    /\ class_i = 0
    /\ module_i > Len(apiData)
    /\ pc' = "sort_structs_map"
    /\ UNCHANGED <<analysis, ordering, apiData, dll_patches, rust_api_patches, module_i, class_i, code,
                   structs_map, functions_map, sorted_class_map, classes_not_found,
                   iteration_count, size_test, api_code, const_var, files, exception>>


(***************************************************************************)
(* generate_structs and generate_size_test                                  *)
(***************************************************************************)
\* a field or payload of an emitted definition
Emitted(name, has_type, type) == [name |-> name, has_type |-> has_type, type |-> type]

\* gen-api.py:884-902, 920-931  the type text of a field or payload, or the
\* exception of subscripting None when the type is not found
EmitType(raw_type, primitive_test, analyzed, api) ==
    IF primitive_test THEN [exc |-> "none", type |-> raw_type]
    ELSE BoundaryType(analyzed, search_for_class_by_rust_class_name(api, analyzed[2]))

\* gen-api.py:884-886  a struct field: the test is on the analyzed type
StructFieldType(field, analyzed, api) ==
    EmitType(field.type, is_primitive_arg(analyzed[2]), analyzed, api)

\* gen-api.py:920-931  an enum payload: the test is on the type as written
EnumPayloadType(variant, api) ==
    IF variant.has_type
    THEN EmitType(variant.type, is_primitive_arg(variant.type),
                  analyze_type(variant.type), api)
    ELSE [exc |-> "none", type |-> <<>>]

\* the field of type t in front of the fields rest, or the first exception
ConsEmitted(name, has_type, t, rest) ==
    IF t.exc # "none" THEN [exc |-> t.exc, fields |-> <<>>]
    ELSE IF rest.exc # "none" THEN rest
    ELSE [exc |-> "none", fields |-> <<Emitted(name, has_type, t.type)>> \o rest.fields]

\* gen-api.py:876-904  the fields of a struct from the i-th on
RECURSIVE EmitStruct(_, _, _)
EmitStruct(fs, i, api) ==
    IF i > Len(fs) THEN [exc |-> "none", fields |-> <<>>]
    ELSE ConsEmitted(fs[i].name, TRUE,
                     StructFieldType(fs[i], analyze_type(fs[i].type), api),
                     EmitStruct(fs, i + 1, api))

\* gen-api.py:915-933  the variants of an enum from the i-th on
RECURSIVE EmitEnum(_, _, _)
EmitEnum(vs, i, api) ==
    IF i > Len(vs) THEN [exc |-> "none", fields |-> <<>>]
    ELSE ConsEmitted(vs[i].name, vs[i].has_type, EnumPayloadType(vs[i], api),
                     EmitEnum(vs, i + 1, api))

\* the definition with the fields this in front of the definitions rest
ConsUnit(kind, name, this, rest) ==
    IF this.exc # "none" THEN [exc |-> this.exc, units |-> <<>>]
    ELSE IF rest.exc # "none" THEN rest
    ELSE [exc |-> "none",
          units |-> << [kind |-> kind, name |-> name, fields |-> this.fields] >>
                    \o rest.units]

\* gen-api.py:841-936  from entry i on; the result is [exc, units]
RECURSIVE generate_structs(_, _, _)
generate_structs(api, map, i) ==
    IF i > Len(map) THEN [exc |-> "none", units |-> <<>>]
    ELSE IF "struct" \in map[i].keys
    THEN ConsUnit("struct", map[i].name, EmitStruct(map[i].struct, 1, api),
                  generate_structs(api, map, i + 1))
    ELSE IF "enum" \in map[i].keys
    THEN ConsUnit("enum", map[i].name, EmitEnum(map[i].enum, 1, api),
                  generate_structs(api, map, i + 1))
    ELSE generate_structs(api, map, i + 1)

\* LayoutAssertions with the assertion only for the entries that are structs
RECURSIVE LayoutAssertionsStructsOnly(_, _)
LayoutAssertionsStructsOnly(map, i) ==
    IF i > Len(map) THEN <<>>
    ELSE (IF "external" \in map[i].keys /\ "struct" \in map[i].keys
          THEN << [external |-> map[i].external, struct_name |-> map[i].name] >>
          ELSE <<>>) \o LayoutAssertionsStructsOnly(map, i + 1)

\* gen-api.py:1244-1248  one assertion per entry that has the key "external"
RECURSIVE LayoutAssertions(_, _)
LayoutAssertions(map, i) ==
    IF i > Len(map) THEN <<>>
    ELSE (IF "external" \in map[i].keys
          THEN << [external |-> map[i].external, struct_name |-> map[i].name] >>
          ELSE <<>>) \o LayoutAssertions(map, i + 1)

\* the state after generate_structs returned gs
SizeTestResult(gs) ==
    /\ size_test' = IF gs.exc # "none" THEN size_test
                    ELSE [structs |-> gs.units,
                          asserts |-> LayoutAssertions(sorted_class_map, 1)]
    /\ pc' = IF gs.exc # "none" THEN "raised" ELSE "write_dll"
    /\ exception' = gs.exc

\* main() 1261, 1266 and gen-api.py:1223-1252
GenerateSizeTest ==
    /\ pc = "sorted"
    /\ SizeTestResult(generate_structs(apiData, sorted_class_map, 1))
    /\ structs_map' = sorted_class_map
    /\ UNCHANGED <<analysis, ordering, apiData, dll_patches, rust_api_patches, module_i, class_i, code,
                   functions_map, sorted_class_map, classes_not_found,
                   iteration_count, api_code, const_var, files>>

s_rs == <<".","r","s">>
dll_rs == <<"d","l","l">> \o s_rs
lib_rs == <<"l","i","b">> \o s_rs

\* a file written by write_file: its directory and its name
Written(dir, name) == [dir |-> dir, name |-> name]

\* main() 1267-1271  write_file(rust_dll_file, rust_dll_path)
WriteDll ==
    /\ pc = "write_dll"
    /\ files' = files \cup {Written("azul-dll", lib_rs)}
    /\ pc' = "generate_rust_api"
    /\ UNCHANGED <<analysis, ordering, apiData, dll_patches, rust_api_patches, module_i, class_i, code,
                   structs_map, functions_map, sorted_class_map, classes_not_found,
                   iteration_count, size_test, api_code, const_var, exception>>


(***************************************************************************)
(* generate_rust_api                                                        *)
(***************************************************************************)
\* gen-api.py:362-370  a named argument type, found or not
RustArgFound(arg, analyzed, found) ==
    IF found = <<>> THEN [exc |-> E_ArgTypeNotFound, arg |-> arg]
    ELSE [exc |-> "none",
          arg |-> Arg(arg.name,
                      IF analyzed[1] \in { <<"*","c","o","n","s","t"," ">>,
                                           <<"*","m","u","t"," ">> }
                      THEN analyzed[1] \o prefix \o found[2]
                      ELSE analyzed[1] \o found[2])]

\* gen-api.py:353-370  one argument, its type analyzed
RustArgWith(arg, analyzed, api) ==
    IF is_primitive_arg(analyzed[2])
    THEN [exc |-> "none", arg |-> Arg(arg.name, analyzed[1] \o analyzed[2])]
    ELSE RustArgFound(arg, analyzed,
                      search_for_class_by_rust_class_name(api, analyzed[2]))

\* gen-api.py:347-372  the arguments after the receiver, from argument i on
RECURSIVE RustArgsFrom(_, _, _)
RustArgsFrom(f, i, api) ==
    IF i > Len(f.fn_args) THEN [exc |-> "none", args |-> <<>>]
    ELSE IF f.fn_args[i].name = n_self THEN RustArgsFrom(f, i + 1, api)
    ELSE ConsArg(RustArgWith(f.fn_args[i], analyze_type(Strip(f.fn_args[i].type)), api),
                 RustArgsFrom(f, i + 1, api))

\* gen-api.py:338-345  the receiver of a wrapper method
SelfArgRust(self_val) ==
    IF self_val = <<"r","e","f","m","u","t">>
    THEN Arg(n_self, <<"&","m","u","t"," ","s","e","l","f">>)
    ELSE IF self_val = <<"r","e","f">>
    THEN Arg(n_self, <<"&","s","e","l","f">>)
    ELSE Arg(n_self, n_self)

\* gen-api.py:336-345  the receiver sv in front of the arguments rest
WithSelfRust(self_as_first_arg, sv, rest) ==
    IF self_as_first_arg /\ sv.exc # "none" THEN [exc |-> sv.exc, args |-> <<>>]
    ELSE IF rest.exc # "none" THEN [exc |-> rest.exc, args |-> <<>>]
    ELSE [exc |-> "none",
          args |-> (IF self_as_first_arg THEN <<SelfArgRust(sv.val)>> ELSE <<>>)
                   \o rest.args]

\* gen-api.py:333-374
rust_bindings_fn_args(f, self_as_first_arg, api) ==
    WithSelfRust(self_as_first_arg, SelfValue(f),
                 IF "fn_args" \in f.keys THEN RustArgsFrom(f, 1, api)
                 ELSE [exc |-> "none", args |-> <<>>])

\* gen-api.py:1126-1129, 1169-1172  a named return type, found or not
RustReturnsFound(analyzed, found) ==
    IF found = <<>> THEN [exc |-> E_NoneSubscript, returns |-> <<>>]
    ELSE [exc |-> "none",
          returns |-> analyzed[1] \o <<" ","c","r","a","t","e",":",":">>
                      \o found[1] \o <<":",":">> \o found[2] \o analyzed[3]]

\* gen-api.py:1120-1129, 1163-1172  a declared return type, analyzed
RustReturnsWith(raw, analyzed, api) ==
    IF is_primitive_arg(analyzed[2]) THEN [exc |-> "none", returns |-> raw]
    ELSE RustReturnsFound(analyzed, search_for_class_by_rust_class_name(api, analyzed[2]))

\* gen-api.py:1118-1130, 1161-1173  the return type of a wrapper function
RustReturns(f, default, api) ==
    IF "returns" \notin f.keys THEN [exc |-> "none", returns |-> default]
    ELSE RustReturnsWith(f.returns, analyze_type(f.returns), api)

\* the local `const` of generate_rust_api: unbound, or bound to a constructor
Unbound == [bound |-> FALSE, keys |-> {}, use_patches |-> {}]
Bound(f) == [bound |-> TRUE, keys |-> f.keys, use_patches |-> f.use_patches]

\* gen-api.py:1098-1132  one constructor, its override test, arguments and
\* return type computed; st is [units, const, exc]
RustConstructorWith(f, key, st, patched, args, rets) ==
    IF args.exc # "none" THEN [st EXCEPT !.const = Bound(f), !.exc = args.exc]
    ELSE IF rets.exc # "none" THEN [st EXCEPT !.const = Bound(f), !.exc = rets.exc]
    ELSE [st EXCEPT !.const = Bound(f),
                    !.units = Append(@, Unit("fn", f.name,
                                             IF patched THEN "patch" ELSE "call",
                                             IF patched THEN key ELSE <<>>))]

\* gen-api.py:1096-1132  the constructors of a class from entry i on
RECURSIVE RustConstructors(_, _, _, _, _, _)
RustConstructors(fs, i, module_name, c, env, st) ==
    IF i > Len(fs) \/ st.exc # "none" THEN st
    ELSE RustConstructors(fs, i + 1, module_name, c, env,
            RustConstructorWith(fs[i], <<module_name, c.name, fs[i].name>>, st,
                MemberPatched(env.patches, "rust", module_name, c.name, fs[i]),
                rust_bindings_fn_args(fs[i], FALSE, env.api),
                RustReturns(fs[i], <<"S","e","l","f">>, env.api)))

\* gen-api.py:1144-1149  the body of a method: the test reads `const`, the
\* last constructor bound so far
MethodBody(in_table, const) ==
    IF in_table /\ "use_patches" \in const.keys /\ "rust" \in const.use_patches
    THEN "patch" ELSE "call"

\* gen-api.py:1153  "use_patches" in f.keys() and f["use_patches"]
MethodSkipped(f, in_table) ==
    in_table /\ "use_patches" \in f.keys /\ f.use_patches # {}

\* gen-api.py:1175  the default wrapper of a method
MethodUnit(f, key, body) ==
    Unit("fn", f.name, body, IF body = "patch" THEN key ELSE <<>>)

\* gen-api.py:1136-1175  one method, its table test, arguments and return
\* type computed; st is [units, const, exc]
RustMethodWith(f, key, st, in_table, args, rets) ==
    IF args.exc # "none" THEN [st EXCEPT !.exc = args.exc]
    ELSE IF in_table /\ ~ st.const.bound THEN [st EXCEPT !.exc = E_NameError]
    ELSE IF MethodSkipped(f, in_table)
    THEN [st EXCEPT !.units = Append(@, Unit("patch", f.name, "patch", key))]
    ELSE IF rets.exc # "none" THEN [st EXCEPT !.exc = rets.exc]
    ELSE IF in_table
    THEN [st EXCEPT !.units = @ \o << Unit("patch", f.name, "patch", key),
                                      MethodUnit(f, key, MethodBody(in_table, st.const)) >>]
    ELSE [st EXCEPT !.units = Append(@, MethodUnit(f, key, "call"))]

\* gen-api.py:1134-1175  the methods of a class from entry i on
RECURSIVE RustMethods(_, _, _, _, _, _)
RustMethods(fs, i, module_name, c, env, st) ==
    IF i > Len(fs) \/ st.exc # "none" THEN st
    ELSE RustMethods(fs, i + 1, module_name, c, env,
            RustMethodWith(fs[i], <<module_name, c.name, fs[i].name>>, st,
                <<module_name, c.name, fs[i].name>> \in env.patches,
                rust_bindings_fn_args(fs[i], TRUE, env.api),
                RustReturns(fs[i], <<>>, env.api)))

\* gen-api.py:1092
should_emit_impl(c) ==
    /\ ~ ("const" \in c.keys \/ class_is_typedef(c))
    /\ \/ "constructors" \in c.keys /\ Len(c.constructors) > 0
       \/ "functions" \in c.keys /\ Len(c.functions) > 0

\* gen-api.py:1187-1197  the capability, copy and drop implementations
RustImpls(c) ==
    (IF Derives(c, "Debug") THEN <<Unit("impl", c.name, "Debug", <<>>)>> ELSE <<>>)
    \o (IF Derives(c, "Copy")
        THEN <<Unit("impl", c.name, "Clone", <<>>), Unit("impl", c.name, "Copy", <<>>)>>
        ELSE IF class_is_stack_allocated(c) /\ class_can_be_cloned(c)
                /\ Lifetime(c) = <<>>
                /\ ~ ("const" \in c.keys \/ class_is_typedef(c))
        THEN <<Unit("impl", c.name, "Clone_deep_copy", <<>>)>>
        ELSE <<>>)
    \o (IF ~ ("const" \in c.keys \/ class_is_typedef(c) \/ Derives(c, "Copy"))
        THEN <<Unit("impl", c.name, "Drop", <<>>)>>
        ELSE <<>>)

\* gen-api.py:1094-1175  the constructors and then the methods of the class
RustMembers(module_name, c, env, st) ==
    IF ~ should_emit_impl(c) THEN st
    ELSE RustMethods(IF "functions" \in c.keys THEN c.functions ELSE <<>>, 1,
                     module_name, c, env,
                     RustConstructors(IF "constructors" \in c.keys THEN c.constructors
                                      ELSE <<>>,
                                      1, module_name, c, env, st))

\* gen-api.py:1187-1197  the implementations of the class, after its members
RustImplsAfter(c, st) ==
    IF st.exc # "none" THEN st ELSE [st EXCEPT !.units = @ \o RustImpls(c)]

\* gen-api.py:1055-1197  the body of the class loop; env is [api, patches] and
\* st is [units, const, exc]
RustClass(module_name, c, env, st) ==
    IF ClassPatched(env.patches, "rust", module_name, c)
    THEN [st EXCEPT !.units = Append(@, Unit("patch", c.name, "patch",
                                             <<module_name, c.name>>))]
    ELSE RustImplsAfter(c,
            RustMembers(module_name, c, env,
                [st EXCEPT !.units = Append(@, Unit("use", c.name, "pub_use", <<>>))]))

\* gen-api.py:121-131  the argument types of a list of functions
FnArgTypes(fs) ==
    UNION { { fs[i].fn_args[j].type :
                j \in { k \in 1..Len(fs[i].fn_args) : fs[i].fn_args[k].name # n_self } }
            : i \in { k \in 1..Len(fs) : "fn_args" \in fs[k].keys } }

\* gen-api.py:139-147  the argument types of the module, pointer markers
\* replaced and blanks stripped, that are not basic types
NamedArgTypes(module) ==
    { a \in { Strip(Replace(Replace(t, <<"*","c","o","n","s","t">>, <<>>),
                            <<"*","m","u","t">>, <<>>)) :
              t \in UNION { FnArgTypes(module.classes[i].constructors)
                            \cup FnArgTypes(module.classes[i].functions)
                            : i \in 1..Len(module.classes) } }
      : a \notin basic_types }

\* ImportsOf with a type that is not found left out of the imports
ImportsOfFound(api, module_name, named) ==
    [exc |-> "none",
     imports |-> { p \in { search_for_class_by_rust_class_name(api, a) : a \in named }
                   : IF p = <<>> THEN FALSE ELSE p[1] # module_name }]

\* gen-api.py:149-183  the imports of the named types; [exc, imports] with
\* imports a set of <<module, class>>
ImportsOf(api, module_name, named) ==
    IF \E a \in named : search_for_class_by_rust_class_name(api, a) = <<>>
    THEN [exc |-> E_ImportNotFound, imports |-> {}]
    ELSE [exc |-> "none",
          imports |-> { p \in { search_for_class_by_rust_class_name(api, a) : a \in named }
                        : p[1] # module_name }]

\* gen-api.py:133-183
get_all_imports(api, module) == ImportsOf(api, module.name, NamedArgTypes(module))

\* the characters of the names in code point order
CodeChars ==
    << "0","1","2","3","4","5","6","7","8","9",
       "A","B","C","D","E","F","G","H","I","J","K","L","M",
       "N","O","P","Q","R","S","T","U","V","W","X","Y","Z", "_",
       "a","b","c","d","e","f","g","h","i","j","k","l","m",
       "n","o","p","q","r","s","t","u","v","w","x","y","z" >>

CodeOf(c) == CHOOSE k \in 1..Len(CodeChars) : CodeChars[k] = c

\* str.__lt__
RECURSIVE StrLess(_, _)
StrLess(a, b) ==
    IF b = <<>> THEN FALSE
    ELSE IF a = <<>> THEN TRUE
    ELSE IF Head(a) = Head(b) THEN StrLess(Tail(a), Tail(b))
    ELSE CodeOf(Head(a)) < CodeOf(Head(b))

\* the least name of a set of names
LeastName(names) == CHOOSE x \in names : \A y \in names : y = x \/ StrLess(x, y)

\* gen-api.py:175  classes.sort()
RECURSIVE SortedNames(_)
SortedNames(names) ==
    IF names = {} THEN <<>>
    ELSE <<LeastName(names)>> \o SortedNames(names \ {LeastName(names)})

\* the orders in which a set of strings can be iterated: the hash of a str
\* differs from one run of the interpreter to the next
HashOrders(names) ==
    { h \in [names -> 1..Cardinality(names)] : \A x, y \in names : x # y => h[x] # h[y] }

\* the first name of the set in the iteration order h
FirstBy(names, h) == CHOOSE x \in names : \A y \in names : h[x] <= h[y]

\* gen-api.py:169  list(imports[module_name]) under the iteration order h
RECURSIVE ListBy(_, _)
ListBy(names, h) ==
    IF names = {} THEN <<>>
    ELSE <<FirstBy(names, h)>> \o ListBy(names \ {FirstBy(names, h)}, h)

\* the classes of an import line as they were listed
ImportClassesUnsorted(listed) == listed

\* gen-api.py:169-179  the classes of an import line: one class as it is,
\* several classes sorted
ImportClasses(listed) ==
    IF Len(listed) = 1 THEN listed ELSE SortedNames({ listed[i] : i \in 1..Len(listed) })

\* gen-api.py:121-131  the argument types of the functions from the i-th on,
\* in order
RECURSIVE FnArgTypeList(_, _)
FnArgTypeList(fs, i) ==
    IF i > Len(fs) THEN <<>>
    ELSE (IF "fn_args" \in fs[i].keys
          THEN SelectSeq([j \in 1..Len(fs[i].fn_args) |-> fs[i].fn_args[j]],
                         LAMBDA a : a.name # n_self)
          ELSE <<>>)
         \o FnArgTypeList(fs, i + 1)

\* gen-api.py:139-142  the arguments of the classes from the i-th on: the
\* constructors of a class, then its functions
RECURSIVE ModuleArgList(_, _)
ModuleArgList(module, i) ==
    IF i > Len(module.classes) THEN <<>>
    ELSE FnArgTypeList(module.classes[i].constructors, 1)
         \o FnArgTypeList(module.classes[i].functions, 1)
         \o ModuleArgList(module, i + 1)

\* gen-api.py:144-161  the keys of imports in insertion order: the module of
\* each argument type from the i-th argument on, when it is not in seen
RECURSIVE ImportModulesFrom(_, _, _, _)
ImportModulesFrom(api, args, i, seen) ==
    IF i > Len(args) THEN seen
    ELSE ImportModulesFrom(api, args, i + 1,
            IF Strip(Replace(Replace(args[i].type, <<"*","c","o","n","s","t">>, <<>>),
                             <<"*","m","u","t">>, <<>>)) \in basic_types
            THEN seen
            ELSE IF search_for_class_by_rust_class_name(api,
                        Strip(Replace(Replace(args[i].type, <<"*","c","o","n","s","t">>, <<>>),
                                      <<"*","m","u","t">>, <<>>))) = <<>>
            THEN seen
            ELSE IF \E k \in 1..Len(seen) :
                       seen[k] = search_for_class_by_rust_class_name(api,
                                    Strip(Replace(Replace(args[i].type,
                                                          <<"*","c","o","n","s","t">>, <<>>),
                                                  <<"*","m","u","t">>, <<>>)))[1]
            THEN seen
            ELSE Append(seen, search_for_class_by_rust_class_name(api,
                                 Strip(Replace(Replace(args[i].type,
                                                       <<"*","c","o","n","s","t">>, <<>>),
                                               <<"*","m","u","t">>, <<>>)))[1]))

\* gen-api.py:163-181  one line "use crate::module::{classes};" for each key
\* of imports but the module itself, the sets listed in the order h
ImportLinesOf(mods, imports, h) ==
    [ k \in 1..Len(mods) |->
        [ module  |-> mods[k],
          classes |-> ImportClasses(ListBy({ p[2] : p \in { q \in imports : q[1] = mods[k] } },
                                           h)) ] ]

\* gen-api.py:163-181
ImportLines(api, module, imports, h) ==
    ImportLinesOf(SelectSeq(ImportModulesFrom(api, ModuleArgList(module, 1), 1, <<>>),
                            LAMBDA m : m # module.name),
                  imports, h)

\* gen-api.py:949-967  the implementations of dll.rs for one struct map entry
LoaderImpls(entry, d) ==
    (IF "PartialEq" \in d THEN <<Unit("impl", entry.name, "PartialEq", <<>>)>> ELSE <<>>)
    \o (IF "Eq" \in d THEN <<Unit("impl", entry.name, "Eq", <<>>)>> ELSE <<>>)
    \o (IF "PartialOrd" \in d THEN <<Unit("impl", entry.name, "PartialOrd", <<>>)>> ELSE <<>>)
    \o (IF "Ord" \in d THEN <<Unit("impl", entry.name, "Ord", <<>>)>> ELSE <<>>)
    \o (IF "Hash" \in d THEN <<Unit("impl", entry.name, "Hash", <<>>)>> ELSE <<>>)

\* gen-api.py:949-967  the implementations of the entries from the i-th on
RECURSIVE LoaderImplsFrom(_, _)
LoaderImplsFrom(map, i) ==
    IF i > Len(map) THEN <<>>
    ELSE LoaderImpls(map[i], IF "derive" \in map[i].keys THEN map[i].derive ELSE {})
         \o LoaderImplsFrom(map, i + 1)

\* the key tuple(['dll']) of rust_api_patches
DllKey == << <<"d","l","l">> >>

\* gen-api.py:941-987  dll.rs from the definitions gs of generate_structs
LoaderWith(gs, map, fmap, patches) ==
    IF gs.exc # "none" THEN [exc |-> gs.exc, units |-> <<>>]
    ELSE [exc |-> "none",
          units |->
            (IF DllKey \in patches
             THEN <<Unit("patch", <<>>, "patch", DllKey)>> ELSE <<>>)
            \o [i \in 1..Len(gs.units) |->
                  Unit(gs.units[i].kind, gs.units[i].name, "layout", <<>>)]
            \o LoaderImplsFrom(map, 1)
            \o [i \in 1..Len(fmap) |-> Unit("extern_fn", fmap[i].name, "decl", <<>>)]]

\* gen-api.py:939-987  the result is [exc, units]
generate_dll_loader(api, map, fmap, patches) ==
    LoaderWith(generate_structs(api, map, 1), map, fmap, patches)

\* an entry of module_file_map
File(name, units) == [name |-> name, units |-> units]

\* gen-api.py:1017-1034  lib.rs
LibUnits ==
    [i \in 1..Len(apiData) |-> Unit("mod", apiData[i].name, "pub_mod", <<>>)]
    \o (IF GlobalKey \in rust_api_patches
        THEN <<Unit("patch", <<>>, "patch", GlobalKey)>> ELSE <<>>)

\* the state after generate_dll_loader returned loader
RustApiStartResult(loader) ==
    /\ api_code' = IF loader.exc # "none" THEN api_code
                   ELSE DictSet(DictSet(api_code, File(dll_rs, loader.units)),
                                File(lib_rs, LibUnits))
    /\ pc' = IF loader.exc # "none" THEN "raised" ELSE "rust_api"
    /\ exception' = loader.exc

\* gen-api.py:992-1034  dll.rs and lib.rs
RustApiStart ==
    /\ pc = "generate_rust_api"
    /\ RustApiStartResult(generate_dll_loader(apiData, structs_map, functions_map,
                                              rust_api_patches))
    /\ module_i' = 1
    /\ class_i' = 0
    /\ const_var' = Unbound
    /\ UNCHANGED <<analysis, ordering, apiData, dll_patches, rust_api_patches, code, structs_map,
                   functions_map, sorted_class_map, classes_not_found,
                   iteration_count, size_test, files>>

\* gen-api.py:1040-1051  the head of the file of a module
ModuleHead(module, imp, lines) ==
    <<Unit("use", <<>>, "dll", <<>>)>>
    \o (IF <<module.name>> \in rust_api_patches
        THEN <<Unit("patch", <<>>, "patch", <<module.name>>)>>
        ELSE <<>>)
    \o (IF imp.imports = {} THEN <<>>
        ELSE <<[kind |-> "use", name |-> <<>>, body |-> "imports",
                key |-> <<>>, imports |-> imp.imports, lines |-> lines]>>)

\* the state after get_all_imports returned imp, having listed its sets in
\* the order h
RustApiModuleResult(module, imp, h) ==
    /\ api_code' = IF imp.exc # "none" THEN api_code
                   ELSE DictSet(api_code,
                                File(module.name \o s_rs,
                                     ModuleHead(module, imp,
                                                ImportLines(apiData, module, imp.imports, h))))
    /\ pc' = IF imp.exc # "none" THEN "raised" ELSE pc
    /\ exception' = imp.exc
    /\ module_i' = IF imp.exc = "none" /\ Len(module.classes) = 0
                   THEN module_i + 1 ELSE module_i
    /\ class_i' = IF imp.exc = "none" /\ Len(module.classes) # 0 THEN 1 ELSE 0

\* gen-api.py:1036-1053  the head of the module loop
RustApiModule ==
    /\ pc = "rust_api"
    /\ class_i = 0
    /\ module_i <= Len(apiData)
    /\ \E h \in HashOrders({ p[2] : p \in get_all_imports(apiData, apiData[module_i]).imports }) :
          RustApiModuleResult(apiData[module_i],
                              get_all_imports(apiData, apiData[module_i]), h)
    /\ UNCHANGED <<analysis, ordering, apiData, dll_patches, rust_api_patches, code, structs_map,
                   functions_map, sorted_class_map, classes_not_found,
                   iteration_count, size_test, const_var, files>>

\* the text of the file name in module_file_map
FileUnits(file_map, name) ==
    (CHOOSE e \in { file_map[i] : i \in 1..Len(file_map) } : e.name = name).units

\* the state after the class loop body returned r
RustApiClassResult(file, r, last) ==
    /\ api_code' = DictSet(api_code, File(file, r.units))
    /\ const_var' = r.const
    /\ exception' = r.exc
    /\ pc' = IF r.exc # "none" THEN "raised" ELSE pc
    /\ class_i' = IF r.exc # "none" THEN class_i
                  ELSE IF last THEN 0 ELSE class_i + 1
    /\ module_i' = IF r.exc = "none" /\ last THEN module_i + 1 ELSE module_i

\* gen-api.py:1055-1200  one iteration of the class loop
RustApiClass ==
    /\ pc = "rust_api"
    /\ class_i >= 1
    /\ RustApiClassResult(
          apiData[module_i].name \o s_rs,
          RustClass(apiData[module_i].name, apiData[module_i].classes[class_i],
                    [api |-> apiData, patches |-> rust_api_patches],
                    [units |-> FileUnits(api_code, apiData[module_i].name \o s_rs),
                     const |-> const_var, exc |-> "none"]),
          class_i = Len(apiData[module_i].classes))
    /\ UNCHANGED <<analysis, ordering, apiData, dll_patches, rust_api_patches, code, structs_map,
                   functions_map, sorted_class_map, classes_not_found,
                   iteration_count, size_test, files>>

\* gen-api.py:1202 and main() 1274-1278  every file of module_file_map is written
WriteApiFiles ==
    /\ pc = "rust_api"
    /\ class_i = 0
    /\ module_i > Len(apiData)
    /\ files' = files \cup { Written("azul/rust", api_code[i].name) : i \in 1..Len(api_code) }
    /\ pc' = "done"
    /\ UNCHANGED <<analysis, ordering, apiData, dll_patches, rust_api_patches, module_i, class_i, code,
                   structs_map, functions_map, sorted_class_map, classes_not_found,
                   iteration_count, size_test, api_code, const_var, exception>>

Next ==
    \/ GenDllStart \/ GenDllModule \/ GenDllClass \/ GenDllReturn
    \/ SortFirstScan \/ SortIteration \/ SortReturn
    \/ GenerateSizeTest \/ WriteDll
    \/ RustApiStart \/ RustApiModule \/ RustApiClass \/ WriteApiFiles


(***************************************************************************)
(* The bounded schemas: the classes of api.json that the generator is run  *)
(* on, and the keys of the two override tables.                             *)
(***************************************************************************)
n_m   == <<"m">>
n_n   == <<"n">>
n_get == <<"g","e","t">>
n_new == <<"n","e","w">>
t_ref == <<"r","e","f">>

\* r[k] when the JSON object r has the key k
Get(r, k, default) == IF k \in DOMAIN r THEN r[k] ELSE default

\* a class of the schema from the keys its JSON object holds
Class(name, attrs) ==
    [ name            |-> name,
      keys            |-> DOMAIN attrs,
      external        |-> Get(attrs, "external", <<>>),
      struct_fields   |-> Get(attrs, "struct_fields", <<>>),
      enum_fields     |-> Get(attrs, "enum_fields", <<>>),
      typedef         |-> Get(attrs, "typedef", FALSE),
      const           |-> Get(attrs, "const", <<>>),
      derive          |-> Get(attrs, "derive", {}),
      clone           |-> Get(attrs, "clone", TRUE),
      rust_class_name |-> Get(attrs, "rust_class_name", <<>>),
      is_boxed_object |-> Get(attrs, "is_boxed_object", FALSE),
      use_patches     |-> Get(attrs, "use_patches", {}),
      constructors    |-> Get(attrs, "constructors", <<>>),
      functions       |-> Get(attrs, "functions", <<>>) ]

\* a constructor or function of the schema from the keys its JSON object holds
Fn(name, attrs) ==
    [ name        |-> name,
      keys        |-> DOMAIN attrs,
      fn_args     |-> Get(attrs, "fn_args", <<>>),
      returns     |-> Get(attrs, "returns", <<>>),
      use_patches |-> Get(attrs, "use_patches", {}) ]

\* a module of the schema
Module(name, classes) == [name |-> name, classes |-> classes]

Documented == [doc |-> <<"d">>]

PointFields == << Field("x", t_f32), Field("y", t_f32) >>

\* the layout keys a class may hold
Layouts(name) ==
    { [external |-> ExternalOf(name), struct_fields |-> PointFields],
      [external |-> ExternalOf(name),
       enum_fields |-> << Variant("N", FALSE, <<>>), Variant("V", TRUE, t_u8) >>],
      [external |-> ExternalOf(name), typedef |-> TRUE],
      [external |-> ExternalOf(name), typedef |-> FALSE],
      [external |-> ExternalOf(name), const |-> t_u8],
      [external |-> ExternalOf(name)],
      [external |-> ExternalOf(name), is_boxed_object |-> TRUE],
      [struct_fields |-> PointFields],
      Documented }

\* the capability keys a class may hold
Capabilities ==
    { Documented,
      [derive |-> {"PartialEq", "Debug"}],
      [derive |-> {"PartialEq", "Debug"}, clone |-> FALSE],
      [derive |-> {"Eq", "Copy"}],
      [derive |-> {"PartialOrd", "Hash"}],
      [derive |-> {"Ord"}],
      [derive |-> {"Debug", "Clone", "Copy", "PartialEq", "Eq", "PartialOrd", "Ord", "Hash"}] }

\* a receiver argument {"self": "ref"}
SelfRef == Arg(n_self, t_ref)

NewPlain == Fn(n_new, [fn_args |-> <<Arg(<<"x">>, t_u8)>>, fn_body |-> "body"])
NewPatched == Fn(n_new, [fn_args |-> <<Arg(<<"x">>, t_u8)>>, fn_body |-> "body",
                         use_patches |-> {"dll", "rust"}])
GetPlain == Fn(n_get, [fn_args |-> <<SelfRef>>, returns |-> t_u8, fn_body |-> "body"])
GetPatched == Fn(n_get, [fn_args |-> <<SelfRef>>, returns |-> t_u8,
                         use_patches |-> {"dll", "rust"}])
GetEmptyFlags == Fn(n_get, [fn_args |-> <<SelfRef>>, returns |-> t_u8,
                            fn_body |-> "body", use_patches |-> {}])

\* the constructors and functions a class may hold
PlainMembers == [constructors |-> <<NewPlain>>, functions |-> <<GetPlain>>]

Members ==
    { PlainMembers,
      [functions |-> <<GetPlain>>],
      [functions |-> <<GetPatched>>],
      [constructors |-> <<NewPlain>>, functions |-> <<GetPatched>>],
      [constructors |-> <<NewPatched>>, functions |-> <<GetPlain>>],
      [constructors |-> <<NewPlain>>, functions |-> <<GetEmptyFlags>>] }

\* the use_patches key of a class
ClassFlags ==
    { Documented, [use_patches |-> {"dll"}], [use_patches |-> {"rust"}],
      [use_patches |-> {"dll", "rust"}] }

\* the keys an override table may hold for the class A of module m
ClassKey  == <<n_m, n_A>>
MemberKey == <<n_m, n_A, n_get>>
TableKeys == SUBSET {ClassKey, MemberKey}

\* one class A whose layout and capabilities vary, with and without a
\* class-scope override
LayoutSchemas ==
    { [ api  |-> << Module(n_m, << Class(n_A, l @@ d @@ u @@ f) >>) >>,
        dll  |-> t, rust |-> t ]
      : l \in Layouts(n_A), d \in Capabilities,
        u \in { Documented, [use_patches |-> {"dll", "rust"}] },
        f \in { Documented, PlainMembers },
        t \in { {}, {ClassKey} } }

\* one class A whose members, flags and override tables vary
OverrideSchemas ==
    { [ api  |-> << Module(n_m, << Class(n_A, l @@ u @@ f) >>) >>,
        dll  |-> td, rust |-> tr ]
      : l \in { [external |-> ExternalOf(n_A), struct_fields |-> PointFields],
                [external |-> ExternalOf(n_A)] },
        u \in ClassFlags, f \in Members, td \in TableKeys, tr \in TableKeys }

\* the names of the classes after the first one
ExtraNames == << n_B, n_Dom, n_DomVec, n_X >>

\* a class that refers to the class A
Extras(name) ==
    { Class(name, [external |-> ExternalOf(name),
                   struct_fields |-> << Field("a", n_A) >>]),
      Class(name, [external |-> ExternalOf(name),
                   struct_fields |-> << Field("a", MutPtr(n_A)) >>]),
      Class(name, [external |-> ExternalOf(name),
                   functions |-> << Fn(n_get, [fn_args |-> <<SelfRef, Arg(<<"a">>, n_A)>>,
                                               returns |-> n_A,
                                               fn_body |-> "body"]) >>]) }

\* the sequences of n - 1 classes that follow the class A
RECURSIVE ExtraSeqs(_)
ExtraSeqs(n) ==
    IF n <= 1 THEN { <<>> }
    ELSE { Append(s, e) : s \in ExtraSeqs(n - 1), e \in Extras(ExtraNames[n - 1]) }

\* the class A followed or preceded by classes that refer to it, in one
\* module or in two
ReferenceSchemas ==
    UNION { { [api |-> a, dll |-> {}, rust |-> {}] :
                a \in UNION { { << Module(n_m, <<Class(n_A, l)>> \o s) >>,
                                << Module(n_m, s \o <<Class(n_A, l)>>) >>,
                                << Module(n_m, <<Class(n_A, l)>>), Module(n_n, s) >> }
                              : l \in Layouts(n_A), s \in ExtraSeqs(n) } }
            : n \in 2..MaxClasses }

\* a module that holds the key "use_patches" among its classes
ModuleFlagSchemas ==
    { [ api  |-> << Module(n_m, << Class(n_use_patches, [dll |-> TRUE]),
                                   Class(n_A, [external |-> ExternalOf(n_A)]) >>) >>,
        dll  |-> t, rust |-> t ]
      : t \in { {}, {<<n_m>>}, {<<n_m>>, GlobalKey, DllKey} } }

\* the Rust name of a class that borrows: "A<'a>"
n_A_lifetime == n_A \o <<"<","'","a",">">>

\* one class A whose rust_class_name carries a lifetime parameter
LifetimeSchemas ==
    { [ api  |-> << Module(n_m, << Class(n_A, l @@ d @@ [rust_class_name |-> n_A_lifetime])
                                >>) >>,
        dll  |-> {}, rust |-> {} ]
      : l \in Layouts(n_A), d \in Capabilities }

\* a type name that no class of the schema declares
n_U == <<"U">>

\* the keys of a class A that names an undeclared type: in a struct field, in
\* an enum payload, in an argument or in a return type
UnresolvedShapes ==
    { [external |-> ExternalOf(n_A), struct_fields |-> << Field("a", n_U) >>],
      [external |-> ExternalOf(n_A), enum_fields |-> << Variant("V", TRUE, n_U) >>],
      [external |-> ExternalOf(n_A), struct_fields |-> << Field("a", n_DomVec) >>],
      [external |-> ExternalOf(n_A), struct_fields |-> PointFields,
       enum_fields |-> << Variant("V", TRUE, n_U) >>],
      [external |-> ExternalOf(n_A), const |-> t_u8,
       struct_fields |-> << Field("a", n_U) >>],
      [struct_fields |-> << Field("a", n_U) >>],
      [external |-> ExternalOf(n_A),
       constructors |-> << Fn(n_new, [fn_args |-> <<Arg(<<"x">>, n_U)>>,
                                      fn_body |-> "body"]) >>],
      [external |-> ExternalOf(n_A),
       functions |-> << Fn(n_get, [fn_args |-> <<SelfRef, Arg(<<"x">>, MutPtr(n_U))>>,
                                   fn_body |-> "body"]) >>],
      [external |-> ExternalOf(n_A),
       functions |-> << Fn(n_get, [fn_args |-> <<SelfRef>>, returns |-> n_U,
                                   fn_body |-> "body"]) >>],
      [external |-> ExternalOf(n_A),
       constructors |-> << Fn(n_new, [fn_args |-> <<Arg(<<"x">>, t_u8)>>,
                                      returns |-> n_U, fn_body |-> "body"]) >>] }

\* one class A that names an undeclared type, without an override, replaced
\* in both stages, and replaced in the interchange stage only
UnresolvedSchemas ==
    { [ api  |-> << Module(n_m, << Class(n_A, l @@ o.flags) >>) >>,
        dll  |-> o.dll, rust |-> o.rust ]
      : l \in UnresolvedShapes,
        o \in { [flags |-> Documented, dll |-> {}, rust |-> {}],
                [flags |-> [use_patches |-> {"dll", "rust"}],
                 dll |-> {ClassKey}, rust |-> {ClassKey}],
                [flags |-> [use_patches |-> {"dll"}], dll |-> {ClassKey}, rust |-> {}] } }

\* classes that share a name: a class A, classes that carry the alias A, X or
\* u8, and a class whose name is the primitive u8
AliasEntries ==
    { [name |-> n_A,  attrs |-> [external |-> ExternalOf(n_A)]],
      [name |-> n_B,  attrs |-> [external |-> ExternalOf(n_B), rust_class_name |-> n_A]],
      [name |-> n_B,  attrs |-> [external |-> ExternalOf(n_B), rust_class_name |-> n_X]],
      [name |-> n_B,  attrs |-> [external |-> ExternalOf(n_B), rust_class_name |-> t_u8]],
      [name |-> n_X,  attrs |-> [external |-> ExternalOf(n_X), rust_class_name |-> n_A]],
      [name |-> t_u8, attrs |-> [external |-> ExternalOf(t_u8)]] }

\* the names the method of the second class refers to
SearchedNames == { n_A, n_B, n_X, t_u8 }

\* the method get(&self, a: t)
Referring(t) ==
    [functions |-> << Fn(n_get, [fn_args |-> <<SelfRef, Arg(<<"a">>, t)>>,
                                 fn_body |-> "body"]) >>]

\* the pairs of entries of different names
AliasPairs == { q \in AliasEntries \X AliasEntries : q[1].name # q[2].name }

\* two classes of different names, in one module or in two, the second with
\* a method whose argument type is one of the searched names
AliasSchemas ==
    UNION { { [ api  |-> << Module(n_m, << Class(q[1].name, q[1].attrs),
                                           Class(q[2].name, q[2].attrs @@ Referring(t)) >>) >>,
                dll  |-> {}, rust |-> {} ],
              [ api  |-> << Module(n_m, << Class(q[1].name, q[1].attrs) >>),
                            Module(n_n, << Class(q[2].name, q[2].attrs @@ Referring(t)) >>) >>,
                dll  |-> {}, rust |-> {} ] }
            : q \in AliasPairs, t \in SearchedNames }

n_o == <<"o">>

\* the method get(&self, a: t, b: u)
ReferringTwo(t, u) ==
    [functions |-> << Fn(n_get, [fn_args |-> <<SelfRef, Arg(<<"a">>, t), Arg(<<"b">>, u)>>,
                                 fn_body |-> "body"]) >>]

\* a class X whose method takes the classes A and B of other modules, in
\* either order; A and B in one module or in two
ImportSchemas ==
    UNION { { [ api  |-> << Module(n_m, << Class(q[1], [external |-> ExternalOf(q[1])]),
                                           Class(q[2], [external |-> ExternalOf(q[2])]) >>),
                            Module(n_n, << Class(n_X, [external |-> ExternalOf(n_X)]
                                                        @@ ReferringTwo(t[1], t[2])) >>) >>,
                dll  |-> {}, rust |-> {} ],
              [ api  |-> << Module(n_m, << Class(q[1], [external |-> ExternalOf(q[1])]) >>),
                            Module(n_n, << Class(q[2], [external |-> ExternalOf(q[2])]) >>),
                            Module(n_o, << Class(n_X, [external |-> ExternalOf(n_X)]
                                                        @@ ReferringTwo(t[1], t[2])) >>) >>,
                dll  |-> {}, rust |-> {} ] }
            : q \in { <<n_A, n_B>>, <<n_B, n_A>> },
              t \in { <<n_A, n_B>>, <<n_B, n_A>>, <<n_B, MutPtr(n_B)>> } }

\* the receiver tags of a method, and a tag that is none of them
ReceiverTags ==
    { <<"v","a","l","u","e">>, <<"m","u","t"," ","v","a","l","u","e">>,
      <<"r","e","f">>, <<"r","e","f","m","u","t">> }

WrongTag == <<"b","o","x">>

\* one class A with the method get: with a receiver of each tag followed by
\* an argument, with a receiver of a wrong tag, and without a receiver
ReceiverSchemas ==
    { [ api  |-> << Module(n_m, << Class(n_A, l @@ [functions |->
                        << Fn(n_get, [fn_args |-> a, fn_body |-> "body"]) >>]) >>) >>,
        dll  |-> {}, rust |-> {} ]
      : l \in { [external |-> ExternalOf(n_A)],
                [external |-> ExternalOf(n_A), struct_fields |-> PointFields] },
        a \in { <<Arg(n_self, t), Arg(<<"x">>, t_u8)>> : t \in ReceiverTags \cup {WrongTag} }
              \cup { <<Arg(<<"x">>, t_u8)>>, <<Arg(<<"x">>, t_u8), Arg(<<"y">>, t_f32)>> } }

\* the class B, known under the alias X, and the class A with one field of
\* the type t
AliasedB ==
    Class(n_B, [external |-> ExternalOf(n_B), rust_class_name |-> n_X,
                struct_fields |-> << Field("a", t_u8) >>])

FieldOf(t) ==
    Class(n_A, [external |-> ExternalOf(n_A), struct_fields |-> << Field("f", t) >>])

\* A holds a B by value or behind a pointer, named by its declared name or
\* by its alias; the two classes in either order of declaration
AliasFieldSchemas ==
    { [ api |-> << Module(n_m, cs) >>, dll |-> {}, rust |-> {} ]
      : cs \in UNION { { << AliasedB, FieldOf(t) >>, << FieldOf(t), AliasedB >> }
                       : t \in { n_B, n_X, MutPtr(n_B), MutPtr(n_X) } } }

RefMut(t) == <<"&","m","u","t"," ">> \o t

\* the argument types with a marker or an arity in front of or around a
\* class name or a primitive
MarkedTypes ==
    { Ref(n_A), RefMut(n_A), MutPtr(n_A), Arr2(n_A), Ref(t_u8), MutPtr(t_u8), n_A }

\* one class A with the method get(&self, a: t), t a marked type
MarkedArgSchemas ==
    { [ api  |-> << Module(n_m, << Class(n_A, l @@ Referring(t)) >>) >>,
        dll  |-> {}, rust |-> {} ]
      : l \in { [external |-> ExternalOf(n_A)],
                [external |-> ExternalOf(n_A), struct_fields |-> PointFields] },
        t \in MarkedTypes }

Schemas ==
    LayoutSchemas \cup OverrideSchemas \cup ReferenceSchemas \cup ModuleFlagSchemas
    \cup LifetimeSchemas \cup UnresolvedSchemas \cup AliasSchemas
    \cup ImportSchemas \cup ReceiverSchemas
    \cup AliasFieldSchemas \cup MarkedArgSchemas

Init ==
    /\ \E s \in Schemas :
          /\ apiData = s.api
          /\ dll_patches = s.dll
          /\ rust_api_patches = s.rust
    /\ module_i = 1
    /\ class_i = 0
    /\ code = <<>>
    /\ structs_map = <<>>
    /\ functions_map = <<>>
    /\ sorted_class_map = <<>>
    /\ classes_not_found = <<>>
    /\ iteration_count = 0
    /\ size_test = [structs |-> <<>>, asserts |-> <<>>]
    /\ api_code = <<>>
    /\ const_var = Unbound
    /\ files = {}
    /\ pc = "main"
    /\ exception = "none"
    /\ ordering = NotCompared
    /\ analysis = NotAnalyzed

Spec == Init /\ [][Next]_vars


(***************************************************************************)
(* Properties of the classification, the overrides and the layout          *)
(* assertions.                                                              *)
(***************************************************************************)
\* generate_rust_dll has returned
DllFinished ==
    pc \in { "sort_structs_map", "sort_loop", "sorted", "write_dll",
             "generate_rust_api", "rust_api", "done" }

\* generate_size_test has returned
SizeTestReturned == pc \in { "write_dll", "generate_rust_api", "rust_api", "done" }

\* the k-th class of the m-th module
ClassAt(m, k) == apiData[m].classes[k]

\* the positions <<m, k>> of the classes of the schema
ClassPositions ==
    { p \in (1..Len(apiData)) \X (1..MaxClasses) : p[2] <= Len(apiData[p[1]].classes) }

\* the class is replaced by an enabled class-scope or module-scope override
\* of the interchange stage
DllReplaced(m, k) ==
    \/ ModulePatched(dll_patches, "dll", apiData[m])
    \/ ClassPatched(dll_patches, "dll", apiData[m].name, ClassAt(m, k))

\* the entity declares an external path and an inline layout
DeclaresExternalAndLayout(c) ==
    /\ "external" \in c.keys
    /\ c.keys \cap {"struct_fields", "enum_fields", "typedef", "const"} # {}

\* the interchange text handles the class through a heap box: its destructor
\* takes the box back
TreatedAsBoxed(c) ==
    \E i \in 1..Len(code) :
        /\ code[i].kind = "fn"
        /\ code[i].name = to_snake_case(prefix \o c.name) \o s_delete
        /\ code[i].body = "box_from_raw"

\* the interchange text holds a public function of the class with the suffix
HasHelper(c, suffix) ==
    \E i \in 1..Len(code) :
        /\ code[i].kind = "fn"
        /\ code[i].name = to_snake_case(prefix \o c.name) \o suffix

\* C4: class_is_stack_allocated is true exactly of the entities that declare
\* an external path and an inline layout (struct fields, enum fields, typedef
\* or const); every other entity is handled as a boxed opaque handle by
\* generate_rust_dll.
C4_ClassificationRule ==
    \A p \in ClassPositions :
        /\ class_is_stack_allocated(ClassAt(p[1], p[2]))
              <=> DeclaresExternalAndLayout(ClassAt(p[1], p[2]))
        /\ DllFinished /\ ~ DllReplaced(p[1], p[2])
              => (TreatedAsBoxed(ClassAt(p[1], p[2]))
                     <=> ~ DeclaresExternalAndLayout(ClassAt(p[1], p[2])))

\* a schema with a value type declared by external path and const only, and
\* generate_rust_dll has emitted it without a box
C4_Witness ==
    /\ DllFinished
    /\ \E p \in ClassPositions :
          /\ ~ DllReplaced(p[1], p[2])
          /\ ClassAt(p[1], p[2]).keys \cap {"external", "struct_fields", "enum_fields",
                                            "typedef", "const"} = {"external", "const"}
          /\ ~ TreatedAsBoxed(ClassAt(p[1], p[2]))
    /\ \E i \in 1..Len(code) : code[i].kind = "static"

\* the constructors and functions of a class
MembersOf(c) ==
    { c.constructors[i] : i \in 1..Len(c.constructors) }
    \cup { c.functions[i] : i \in 1..Len(c.functions) }

\* a unit of units carries the override text of the key
EmitsKey(units, key) == \E i \in 1..Len(units) : units[i].key = key

\* C5: when the override table holds an enabled entry for (module, class) and
\* an enabled entry for (module, class, member), the member-scope override
\* text is emitted for the member, by generate_rust_dll and by
\* generate_rust_api.
C5_MemberOverrideWins ==
    \A p \in ClassPositions : \A f \in MembersOf(ClassAt(p[1], p[2])) :
        /\ ( /\ DllFinished
             /\ ClassPatched(dll_patches, "dll", apiData[p[1]].name, ClassAt(p[1], p[2]))
             /\ MemberPatched(dll_patches, "dll", apiData[p[1]].name,
                              ClassAt(p[1], p[2]).name, f) )
           => EmitsKey(code, <<apiData[p[1]].name, ClassAt(p[1], p[2]).name, f.name>>)
        /\ ( /\ pc = "done"
             /\ ClassPatched(rust_api_patches, "rust", apiData[p[1]].name, ClassAt(p[1], p[2]))
             /\ MemberPatched(rust_api_patches, "rust", apiData[p[1]].name,
                              ClassAt(p[1], p[2]).name, f) )
           => EmitsKey(FileUnits(api_code, apiData[p[1]].name \o s_rs),
                       <<apiData[p[1]].name, ClassAt(p[1], p[2]).name, f.name>>)

\* the number of units that carry the text of the key
KeyCount(units, key) == Cardinality({ i \in 1..Len(units) : units[i].key = key })

\* a default wrapper of the member: a function whose body calls the
\* interchange function
HasDefaultWrapper(units, name) ==
    \E i \in 1..Len(units) :
        units[i].kind = "fn" /\ units[i].name = name /\ units[i].body = "call"

\* C6: for every method with a (module, class, member) entry in the binding
\* override table, generate_rust_api emits the override text exactly once and
\* no default wrapper, whatever the use_patches flags of the method and of
\* the constructors.
C6_MemberOverrideReplacesDefault ==
    pc = "done" =>
        \A p \in ClassPositions :
          \A j \in 1..Len(ClassAt(p[1], p[2]).functions) :
            ( /\ ~ ClassPatched(rust_api_patches, "rust", apiData[p[1]].name,
                                ClassAt(p[1], p[2]))
              /\ should_emit_impl(ClassAt(p[1], p[2]))
              /\ <<apiData[p[1]].name, ClassAt(p[1], p[2]).name,
                   ClassAt(p[1], p[2]).functions[j].name>> \in rust_api_patches )
            => /\ KeyCount(FileUnits(api_code, apiData[p[1]].name \o s_rs),
                           <<apiData[p[1]].name, ClassAt(p[1], p[2]).name,
                             ClassAt(p[1], p[2]).functions[j].name>>) = 1
               /\ ~ HasDefaultWrapper(FileUnits(api_code, apiData[p[1]].name \o s_rs),
                                      ClassAt(p[1], p[2]).functions[j].name)

\* the entity is a boxed opaque handle that declares an external path
BoxedWithExternal(c) == "external" \in c.keys /\ ~ DeclaresExternalAndLayout(c)

\* the layout assertions that compare the external type of the class with
\* its generated wrapper
AssertionsOf(c) ==
    { i \in 1..Len(size_test.asserts) :
        /\ size_test.asserts[i].struct_name = prefix \o c.name
        /\ size_test.asserts[i].external = c.external }

\* C7 as stated: every boxed opaque entity with an external path has exactly
\* one layout assertion, for any combination of override flags.
C7_AssertionForEveryBoxed ==
    SizeTestReturned =>
        \A p \in ClassPositions :
            BoxedWithExternal(ClassAt(p[1], p[2]))
                => Cardinality(AssertionsOf(ClassAt(p[1], p[2]))) = 1

\* C7 amended: every boxed opaque entity with an external path that is not
\* replaced by an enabled class-scope or module-scope override of the
\* interchange stage has exactly one layout assertion when generate_size_test
\* returns.
C7_AssertionForEveryBoxedNotReplaced ==
    SizeTestReturned =>
        \A p \in ClassPositions :
            BoxedWithExternal(ClassAt(p[1], p[2])) /\ ~ DllReplaced(p[1], p[2])
                => Cardinality(AssertionsOf(ClassAt(p[1], p[2]))) = 1

\* a boxed entity with override flags and a class-scope entry in the table,
\* the flags not naming the interchange stage, has its assertion
C7_Witness ==
    /\ SizeTestReturned
    /\ \E p \in ClassPositions :
          /\ BoxedWithExternal(ClassAt(p[1], p[2]))
          /\ "use_patches" \in ClassAt(p[1], p[2]).keys
          /\ <<apiData[p[1]].name, ClassAt(p[1], p[2]).name>> \in dll_patches
          /\ ~ DllReplaced(p[1], p[2])
          /\ Cardinality(AssertionsOf(ClassAt(p[1], p[2]))) = 1

\* the size and alignment of a field of a #[repr(C)] struct on a 64-bit
\* target, for pointers, references and the primitive types of the schemas
FieldLayout(type) ==
    IF \/ StartsWith(type, <<"*">>) \/ StartsWith(type, <<"&">>)
       \/ type \in { <<"u","s","i","z","e">>, <<"i","s","i","z","e">>,
                     <<"u","6","4">>, <<"i","6","4">>, <<"f","6","4">> }
    THEN <<8, 8>>
    ELSE IF type \in { <<"u","3","2">>, <<"i","3","2">>, <<"f","3","2">> } THEN <<4, 4>>
    ELSE IF type \in { <<"u","1","6">>, <<"i","1","6">> } THEN <<2, 2>>
    ELSE <<1, 1>>

\* n rounded up to a multiple of a
AlignUp(n, a) == ((n + a - 1) \div a) * a

\* the offset after the fields of a #[repr(C)] struct from the i-th on
RECURSIVE EndOffset(_, _, _)
EndOffset(fields, i, offset) ==
    IF i > Len(fields) THEN offset
    ELSE EndOffset(fields, i + 1,
                   AlignUp(offset, FieldLayout(fields[i].type)[2])
                   + FieldLayout(fields[i].type)[1])

\* the alignment of a #[repr(C)] struct
RECURSIVE MaxAlign(_, _)
MaxAlign(fields, i) ==
    IF i > Len(fields) THEN 1
    ELSE IF FieldLayout(fields[i].type)[2] > MaxAlign(fields, i + 1)
    THEN FieldLayout(fields[i].type)[2]
    ELSE MaxAlign(fields, i + 1)

\* <<size, alignment>> of the struct generate_structs emits
StructLayout(unit) ==
    << AlignUp(EndOffset(unit.fields, 1, 0), MaxAlign(unit.fields, 1)),
       MaxAlign(unit.fields, 1) >>

\* the struct of the name among the definitions of the layout test
EmittedStructs(name) ==
    { i \in 1..Len(size_test.structs) :
        size_test.structs[i].kind = "struct" /\ size_test.structs[i].name = name }

\* C8: for a boxed opaque entity whose external type has size 24 and
\* alignment 8, the wrapper named in its layout assertion has size 24 and
\* alignment 8.  The layout of the external type is not an input of the
\* generator: the wrapper it emits is the same for every external type.
C8_WrapperLayout ==
    SizeTestReturned =>
        \A p \in ClassPositions :
            BoxedWithExternal(ClassAt(p[1], p[2])) =>
                \A a \in AssertionsOf(ClassAt(p[1], p[2])) :
                    \A i \in EmittedStructs(size_test.asserts[a].struct_name) :
                        StructLayout(size_test.structs[i]) = <<24, 8>>

\* the struct map holds an entry for the class
HasStructEntry(c) == prefix \o c.name \in Keys(structs_map)

RegisteredValueType(m, k) ==
    /\ "external" \in ClassAt(m, k).keys
    /\ ClassAt(m, k).keys \cap {"struct_fields", "enum_fields"} # {}
    /\ "const" \notin ClassAt(m, k).keys
    /\ ~ DllReplaced(m, k)

PointLike(c) ==
    /\ c.keys \cap {"external", "struct_fields", "enum_fields", "typedef", "const",
                    "destructor"} = {"external", "struct_fields"}
    /\ Len(c.struct_fields) > 0
    /\ \A i \in 1..Len(c.struct_fields) :
          is_primitive_arg(analyze_type(c.struct_fields[i].type)[2])
    /\ "derive" \in c.keys
    /\ c.derive = {"PartialEq", "Debug"}

\* the destructor generate_rust_dll emits for the class has the body
HasDeleteWithBody(c, body) ==
    \E i \in 1..Len(code) :
        /\ code[i].kind = "fn"
        /\ code[i].name = to_snake_case(prefix \o c.name) \o s_delete
        /\ code[i].body = body

s_downcast_ref    == s_downcast \o <<"_","r","e","f">>
s_downcast_refmut == s_downcast \o <<"_","r","e","f","m","u","t">>

\* the interchange text holds a unit of the kind with the name and the body
HasUnit(kind, name, body) ==
    \E i \in 1..Len(code) :
        /\ code[i].kind = kind
        /\ code[i].name = name
        /\ code[i].body = body

\* the struct map holds the handle wrapper of the class: one field ptr of
\* type *mut c_void and no external path
HasHandleEntry(c) ==
    \E i \in 1..Len(structs_map) :
        /\ structs_map[i].name = prefix \o c.name
        /\ "struct" \in structs_map[i].keys
        /\ structs_map[i].struct = PtrStruct
        /\ "external" \notin structs_map[i].keys

\* an entity with no external path and no inline layout that declares the
\* debug capability
WindowLike(c) ==
    /\ c.keys \cap {"external", "struct_fields", "enum_fields", "typedef", "const"} = {}
    /\ Derives(c, "Debug")

\* C11: an entity with no external path and no inline layout that declares
\* the debug capability (and is not replaced by an override) is not stack
\* allocated, and generate_rust_dll emits for it the handle wrapper struct, a
\* destroy function that takes the box back, the private downcast_ref and
\* downcast_refmut accessors, and a debug helper whose body goes through
\* downcast_ref.
C11_WindowScenario ==
    DllFinished =>
        \A p \in ClassPositions :
            WindowLike(ClassAt(p[1], p[2])) /\ ~ DllReplaced(p[1], p[2])
                => /\ ~ class_is_stack_allocated(ClassAt(p[1], p[2]))
                   /\ HasUnit("struct", prefix \o ClassAt(p[1], p[2]).name, "ptr")
                   /\ HasHandleEntry(ClassAt(p[1], p[2]))
                   /\ HasUnit("fn", to_snake_case(prefix \o ClassAt(p[1], p[2]).name)
                                    \o s_delete, "box_from_raw")
                   /\ HasUnit("private_fn", to_snake_case(prefix \o ClassAt(p[1], p[2]).name)
                                            \o s_downcast_ref, "deref")
                   /\ HasUnit("private_fn", to_snake_case(prefix \o ClassAt(p[1], p[2]).name)
                                            \o s_downcast_refmut, "deref_mut")
                   /\ HasUnit("fn", to_snake_case(prefix \o ClassAt(p[1], p[2]).name)
                                    \o s_fmt_debug, "downcast_ref")

\* an entity with no external path, no inline layout and the capabilities
\* equality and debug has been emitted with its debug helper
C11_Witness ==
    /\ DllFinished
    /\ \E p \in ClassPositions :
          /\ WindowLike(ClassAt(p[1], p[2]))
          /\ ClassAt(p[1], p[2]).derive = {"PartialEq", "Debug"}
          /\ ~ DllReplaced(p[1], p[2])
          /\ HasUnit("fn", to_snake_case(prefix \o ClassAt(p[1], p[2]).name)
                           \o s_fmt_debug, "downcast_ref")

\* the names of the private accessors of the class
AccessorNames(c) ==
    { to_snake_case(prefix \o c.name) \o s : s \in {s_downcast, s_downcast_ref,
                                                    s_downcast_refmut} }

\* generate_dll_loader has returned: module_file_map holds dll.rs
LoaderReturned == dll_rs \in Keys(api_code)

\* the names declared in the extern block of dll.rs
ExternNames ==
    { FileUnits(api_code, dll_rs)[i].name :
        i \in { k \in 1..Len(FileUnits(api_code, dll_rs)) :
                  FileUnits(api_code, dll_rs)[k].kind = "extern_fn" } }

\* the accessors of no class are keys of functions_map or names of the
\* extern block
AccessorsStayInternal ==
    \A p \in ClassPositions :
        /\ AccessorNames(ClassAt(p[1], p[2])) \cap Keys(functions_map) = {}
        /\ LoaderReturned => AccessorNames(ClassAt(p[1], p[2])) \cap ExternNames = {}

\* C12 as stated: for every boxed entity the destroy function is a key of
\* functions_map when generate_rust_dll has returned, and the downcast,
\* downcast_ref and downcast_refmut accessors are never keys of functions_map
\* nor names of the extern block of dll.rs.
C12_DestroyRegisteredForEveryBoxed ==
    /\ AccessorsStayInternal
    /\ DllFinished =>
          \A p \in ClassPositions :
              ~ class_is_stack_allocated(ClassAt(p[1], p[2]))
                  => to_snake_case(prefix \o ClassAt(p[1], p[2]).name) \o s_delete
                        \in Keys(functions_map)

\* C12 amended: for every boxed entity that is not replaced by an enabled
\* class-scope or module-scope override of the interchange stage the destroy
\* function is a key of functions_map when generate_rust_dll has returned and
\* is declared in the extern block of dll.rs, and the downcast, downcast_ref
\* and downcast_refmut accessors are never keys of functions_map nor names of
\* the extern block.
C12_AccessorsStayInternal ==
    /\ AccessorsStayInternal
    /\ DllFinished =>
          \A p \in ClassPositions :
              ( ~ class_is_stack_allocated(ClassAt(p[1], p[2]))
                /\ ~ DllReplaced(p[1], p[2]) )
                  => /\ to_snake_case(prefix \o ClassAt(p[1], p[2]).name) \o s_delete
                          \in Keys(functions_map)
                     /\ LoaderReturned =>
                          to_snake_case(prefix \o ClassAt(p[1], p[2]).name) \o s_delete
                             \in ExternNames

\* dll.rs has been generated for a boxed entity whose accessors were emitted
\* as private functions and whose destroy function is in the extern block
C12_Witness ==
    /\ LoaderReturned
    /\ \E p \in ClassPositions :
          /\ ~ class_is_stack_allocated(ClassAt(p[1], p[2]))
          /\ ~ DllReplaced(p[1], p[2])
          /\ HasUnit("private_fn", to_snake_case(prefix \o ClassAt(p[1], p[2]).name)
                                   \o s_downcast_ref, "deref")
          /\ to_snake_case(prefix \o ClassAt(p[1], p[2]).name) \o s_delete \in ExternNames

\* the entity is a typedef: the key typedef is present and true
IsTypedef(c) == "typedef" \in c.keys /\ c.typedef

\* a value type that is not a const, not a typedef and lacks the copy
\* capability
NeedsDestroy(c) ==
    /\ "const" \notin c.keys
    /\ ~ IsTypedef(c)
    /\ ~ ("derive" \in c.keys /\ "Copy" \in c.derive)

\* clonable, true when not declared
Clonable(c) == "clone" \in c.keys => c.clone

\* the Rust name of the entity carries the lifetime parameter <'a>
HasLifetime(c) ==
    Contains(IF "rust_class_name" \in c.keys THEN c.rust_class_name ELSE c.name,
             <<"<","'","a",">">>)

\* C13 as stated: for a value type generate_rust_dll emits a destroy function
\* if and only if the entity is not a const, not a typedef and lacks the copy
\* capability, and for such an entity a duplicate function if and only if
\* clonable is true.
C13_DestroyAndDuplicate ==
    DllFinished =>
        \A p \in ClassPositions :
            DeclaresExternalAndLayout(ClassAt(p[1], p[2]))
                => /\ HasHelper(ClassAt(p[1], p[2]), s_delete)
                        <=> NeedsDestroy(ClassAt(p[1], p[2]))
                   /\ NeedsDestroy(ClassAt(p[1], p[2]))
                        => ( HasHelper(ClassAt(p[1], p[2]), s_deep_copy)
                               <=> Clonable(ClassAt(p[1], p[2])) )

\* C13 amended: for a value type that no override of the interchange stage
\* replaces, generate_rust_dll emits a destroy function if and only if the
\* entity is not a const, not a typedef and lacks the copy capability, and a
\* duplicate function if and only if, besides, clonable is true and the Rust
\* name of the entity carries no lifetime parameter.
C13_DestroyAndDuplicateWithoutLifetime ==
    DllFinished =>
        \A p \in ClassPositions :
            ( DeclaresExternalAndLayout(ClassAt(p[1], p[2])) /\ ~ DllReplaced(p[1], p[2]) )
                => /\ HasHelper(ClassAt(p[1], p[2]), s_delete)
                        <=> NeedsDestroy(ClassAt(p[1], p[2]))
                   /\ HasHelper(ClassAt(p[1], p[2]), s_deep_copy)
                        <=> ( /\ NeedsDestroy(ClassAt(p[1], p[2]))
                              /\ Clonable(ClassAt(p[1], p[2]))
                              /\ ~ HasLifetime(ClassAt(p[1], p[2])) )

\* a clonable value type whose Rust name carries a lifetime has been emitted
\* with a destroy function and without a duplicate function
C13_Witness ==
    /\ DllFinished
    /\ \E p \in ClassPositions :
          /\ DeclaresExternalAndLayout(ClassAt(p[1], p[2]))
          /\ ~ DllReplaced(p[1], p[2])
          /\ NeedsDestroy(ClassAt(p[1], p[2]))
          /\ Clonable(ClassAt(p[1], p[2]))
          /\ HasLifetime(ClassAt(p[1], p[2]))
          /\ HasHelper(ClassAt(p[1], p[2]), s_delete)
          /\ ~ HasHelper(ClassAt(p[1], p[2]), s_deep_copy)

\* the capabilities that have a helper function, with the suffix of its name
CapabilityHelpers ==
    { <<"Debug", s_fmt_debug>>, <<"PartialEq", s_partial_eq>>,
      <<"PartialOrd", s_partial_cmp>>, <<"Ord", s_cmp>>, <<"Hash", s_hash>> }

\* the entity declares the capability
Declares(c, capability) == "derive" \in c.keys /\ capability \in c.derive

\* how many entries of functions_map, and how many public functions of the
\* interchange text, have the name
TimesRegistered(name) ==
    Cardinality({ i \in 1..Len(functions_map) : functions_map[i].name = name })

TimesEmitted(name) ==
    Cardinality({ i \in 1..Len(code) : code[i].kind = "fn" /\ code[i].name = name })

\* the names generate_rust_dll may register for the class: its constructors
\* and methods, its destroy and duplicate functions and one helper for each
\* declared capability that has one
RegisteredNames(c) ==
    { to_snake_case(prefix \o c.name) \o <<"_">> \o f.name : f \in MembersOf(c) }
    \cup { to_snake_case(prefix \o c.name) \o s : s \in {s_delete, s_deep_copy} }
    \cup { to_snake_case(prefix \o c.name) \o h[2] :
             h \in { x \in CapabilityHelpers : Declares(c, x[1]) } }

\* C14 as stated: for every entity, the helper of each of debug, equality,
\* ordering, full-ordering and hashing is registered in functions_map and
\* emitted exactly once if the capability is declared and not at all if it is
\* absent.
C14_HelpersFollowCapabilities ==
    DllFinished =>
        \A p \in ClassPositions : \A h \in CapabilityHelpers :
            /\ TimesRegistered(to_snake_case(prefix \o ClassAt(p[1], p[2]).name) \o h[2])
                 = IF Declares(ClassAt(p[1], p[2]), h[1]) THEN 1 ELSE 0
            /\ TimesEmitted(to_snake_case(prefix \o ClassAt(p[1], p[2]).name) \o h[2])
                 = IF Declares(ClassAt(p[1], p[2]), h[1]) THEN 1 ELSE 0

\* C14 amended: for every entity that no override of the interchange stage
\* replaces, the helper of each of debug, equality, ordering, full-ordering
\* and hashing is registered in functions_map and emitted exactly once if the
\* capability is declared and not at all if it is absent; and nothing else is
\* registered: full-equality and copy produce no function.
C14_HelpersFollowCapabilitiesNotReplaced ==
    DllFinished =>
        /\ \A p \in ClassPositions : \A h \in CapabilityHelpers :
              ~ DllReplaced(p[1], p[2]) =>
                /\ TimesRegistered(to_snake_case(prefix \o ClassAt(p[1], p[2]).name) \o h[2])
                     = IF Declares(ClassAt(p[1], p[2]), h[1]) THEN 1 ELSE 0
                /\ TimesEmitted(to_snake_case(prefix \o ClassAt(p[1], p[2]).name) \o h[2])
                     = IF Declares(ClassAt(p[1], p[2]), h[1]) THEN 1 ELSE 0
        /\ Keys(functions_map)
             \subseteq UNION { RegisteredNames(ClassAt(p[1], p[2])) : p \in ClassPositions }

\* an entity that declares every capability has been emitted: one helper for
\* each of the five capabilities that have one, and nothing for full-equality
\* and copy
C14_Witness ==
    /\ DllFinished
    /\ \E p \in ClassPositions :
          /\ ~ DllReplaced(p[1], p[2])
          /\ "derive" \in ClassAt(p[1], p[2]).keys
          /\ {"Eq", "Copy"} \subseteq ClassAt(p[1], p[2]).derive
          /\ \A h \in CapabilityHelpers :
                /\ Declares(ClassAt(p[1], p[2]), h[1])
                /\ TimesRegistered(to_snake_case(prefix \o ClassAt(p[1], p[2]).name)
                                   \o h[2]) = 1

(***************************************************************************)
(* Properties of the ordering helpers.                                      *)
(***************************************************************************)
\* C15: the decoding of dll.rs inverts the encoding of the interchange
\* helpers: the 4-valued result decoded is a.partial_cmp(b), one of None,
\* Some(Less), Some(Equal), Some(Greater); the 3-valued result decoded is
\* a.cmp(b), one of Less, Equal, Greater; and when both comparisons were
\* made the 4-valued result is Some of the 3-valued one.
C15_OrderingRoundTrip ==
    /\ ordering.partial_pc = "decoded"
          => ordering.partial_result = NativePartialCmp(ordering.a, ordering.b)
    /\ ordering.cmp_pc = "decoded"
          => ordering.cmp_result = NativeCmp(ordering.a, ordering.b)
    /\ ordering.partial_pc = "decoded" /\ ordering.cmp_pc = "decoded"
          => ordering.partial_result = Some(ordering.cmp_result)

\* both helpers have been called on two numbers of which the first is the
\* greater, and both results were decoded
C15_Witness ==
    /\ ordering.partial_pc = "decoded"
    /\ ordering.cmp_pc = "decoded"
    /\ ordering.a.n > ordering.b.n
    /\ ordering.cmp_wire = 2
    /\ ordering.partial_wire = 3
    /\ ordering.cmp_result = Greater

(***************************************************************************)
(* Properties of the binding layer and of the run as a whole.              *)
(***************************************************************************)
\* the Drop implementations of the class in the file of its module
DropImpls(m, c) ==
    { i \in 1..Len(FileUnits(api_code, apiData[m].name \o s_rs)) :
        /\ FileUnits(api_code, apiData[m].name \o s_rs)[i].kind = "impl"
        /\ FileUnits(api_code, apiData[m].name \o s_rs)[i].name = c.name
        /\ FileUnits(api_code, apiData[m].name \o s_rs)[i].body = "Drop" }

\* C16: when the run is complete, every boxed entity that no class-scope
\* override of the binding stage replaces has exactly one Drop implementation
\* in the file of its module, whatever capabilities it declares.
C16_DropForEveryBoxed ==
    pc = "done" =>
        \A p \in ClassPositions :
            ( ~ class_is_stack_allocated(ClassAt(p[1], p[2]))
              /\ ~ ClassPatched(rust_api_patches, "rust", apiData[p[1]].name,
                                ClassAt(p[1], p[2])) )
                => Cardinality(DropImpls(p[1], ClassAt(p[1], p[2]))) = 1

\* the type expression names neither a primitive nor a declared entity, by
\* its name or by its alias
Unresolved(t) ==
    /\ ~ is_primitive_arg(analyze_type(t)[2])
    /\ \A p \in ClassPositions :
          /\ ClassAt(p[1], p[2]).name # analyze_type(t)[2]
          /\ "rust_class_name" \in ClassAt(p[1], p[2]).keys
                => ClassAt(p[1], p[2]).rust_class_name # analyze_type(t)[2]

\* the argument types of the constructors and methods of the class, the
\* receiver aside
ArgumentTypes(c) ==
    UNION { { f.fn_args[i].type :
                i \in { k \in 1..Len(f.fn_args) : f.fn_args[k].name # n_self } }
            : f \in { g \in MembersOf(c) : "fn_args" \in g.keys } }

\* the declared return types of the constructors and methods of the class
ReturnTypes(c) == { f.returns : f \in { g \in MembersOf(c) : "returns" \in g.keys } }

\* the struct field types and the enum payload types of the class
StructFieldTypes(c) == { c.struct_fields[i].type : i \in 1..Len(c.struct_fields) }

EnumPayloadTypes(c) ==
    { c.enum_fields[i].type :
        i \in { k \in 1..Len(c.enum_fields) : c.enum_fields[k].has_type } }

FieldsAreRead(c) == {"external", "struct_fields"} \subseteq c.keys /\ "const" \notin c.keys

PayloadsAreRead(c) ==
    /\ {"external", "enum_fields"} \subseteq c.keys
    /\ c.keys \cap {"const", "struct_fields"} = {}

UnresolvedFieldIsRead ==
    \E p \in ClassPositions :
        /\ ~ DllReplaced(p[1], p[2])
        /\ \/ /\ FieldsAreRead(ClassAt(p[1], p[2]))
              /\ \E t \in StructFieldTypes(ClassAt(p[1], p[2])) : Unresolved(t)
           \/ /\ PayloadsAreRead(ClassAt(p[1], p[2]))
              /\ \E t \in EnumPayloadTypes(ClassAt(p[1], p[2])) : Unresolved(t)

\* C18: when a struct field or an enum payload names a type that is neither
\* a primitive nor a declared entity, the run fails with one of the
\* unresolved-type errors, and not with the iteration-cap error of the
\* sequencer or any other error.
C18_UnresolvedFieldDiagnostic ==
    (pc = "raised" /\ UnresolvedFieldIsRead)
        => exception \in {E_TypeNotFound, E_ImportNotFound, E_ArgTypeNotFound}

\* every output artifact of the run: the interchange artifact and the files
\* generate_rust_api returned
AllArtifacts ==
    {Written("azul-dll", lib_rs)}
        \cup { Written("azul/rust", api_code[i].name) : i \in 1..Len(api_code) }

\* C19: a run writes every output artifact or, aborting on a fatal error,
\* none of them: once it is complete all artifacts are written, and once it
\* has failed no artifact is written, the interchange artifact included.
C19_AllOrNothing ==
    /\ pc = "done" => files = AllArtifacts
    /\ pc = "raised" => files = {}

\* the class at position p is declared under the name, or carries it as alias
Named(p, name) ==
    \/ ClassAt(p[1], p[2]).name = name
    \/ /\ "rust_class_name" \in ClassAt(p[1], p[2]).keys
       /\ ClassAt(p[1], p[2]).rust_class_name = name

\* position p is declared before position q: in an earlier module, or earlier
\* in the same module
DeclaredBefore(p, q) == p[1] < q[1] \/ (p[1] = q[1] /\ p[2] < q[2])

\* the first position declared under the name
FirstNamed(name) ==
    CHOOSE p \in ClassPositions :
        /\ Named(p, name)
        /\ \A q \in ClassPositions : Named(q, name) => (q = p \/ DeclaredBefore(p, q))

\* the interchange form an argument of the declared type is to have: a
\* primitive as it stands, any other name as the prefixed name of the first
\* entity declared under it
ExpectedArgType(analyzed) ==
    IF analyzed[2] \in basic_types
    THEN analyzed[1] \o analyzed[2]
    ELSE analyzed[1] \o prefix \o ClassAt(FirstNamed(analyzed[2])[1],
                                         FirstNamed(analyzed[2])[2]).name

\* the argument lists functions_map registers under the name
RegisteredArgs(name) ==
    { functions_map[i].fn_args : i \in { k \in 1..Len(functions_map) :
                                           functions_map[k].name = name } }

\* C20: the lookup returns the module and the class name of the first entity,
\* in declaration order of the modules and of the classes within a module,
\* whose name or alias is the searched name, and nothing when there is none;
\* and in a complete run every argument of every method that is not replaced
\* is registered with the prefixed name of that entity, or, when its type is
\* in the primitive list, with the primitive itself, whatever entity is
\* declared under the name of the primitive.
C20_FirstMatchWins ==
    /\ \A name \in SearchedNames \cup {n_U} :
          search_for_class_by_rust_class_name(apiData, name) =
              IF \E p \in ClassPositions : Named(p, name)
              THEN << apiData[FirstNamed(name)[1]].name,
                      ClassAt(FirstNamed(name)[1], FirstNamed(name)[2]).name >>
              ELSE <<>>
    /\ pc = "done" =>
          \A p \in { q \in ClassPositions : ~ DllReplaced(q[1], q[2]) } :
              \A f \in { g \in MembersOf(ClassAt(p[1], p[2])) : "fn_args" \in g.keys } :
                  \A i \in { k \in 1..Len(f.fn_args) : f.fn_args[k].name # n_self } :
                      /\ RegisteredArgs(CFnName(prefix \o ClassAt(p[1], p[2]).name,
                                                f.name)) # {}
                      /\ \A args \in RegisteredArgs(CFnName(prefix \o ClassAt(p[1], p[2]).name,
                                                            f.name)) :
                          \E k \in 1..Len(args) :
                              /\ args[k].name = f.fn_args[i].name
                              /\ args[k].type = ExpectedArgType(analyze_type(f.fn_args[i].type))

\* a complete run in which a method refers to a name that an alias declares
\* first and a later class declares again: the argument is registered with
\* the prefixed name of the aliased class
C20_Witness ==
    /\ pc = "done"
    /\ Cardinality({ p \in ClassPositions : Named(p, n_A) }) = 2
    /\ ClassAt(FirstNamed(n_A)[1], FirstNamed(n_A)[2]).name # n_A
    /\ \E i \in 1..Len(functions_map) :
          \E k \in 1..Len(functions_map[i].fn_args) :
              functions_map[i].fn_args[k].type =
                  prefix \o ClassAt(FirstNamed(n_A)[1], FirstNamed(n_A)[2]).name

(***************************************************************************)
(* Properties of analyze_type.                                              *)
(***************************************************************************)
\* C21: analyze_type returns the marker of the indirection mode as prefix,
\* the mutable reference told from the reference, followed by "[" for the
\* array form; the base name as it was written; and the arity of the array
\* form as suffix. Applied to the base name it returned, it returns that
\* base name with an empty prefix and an empty suffix.
C21_AnalyzeTypeIdempotent ==
    /\ analysis.stage \in {"analyzed", "again"} =>
          /\ analysis.result[1] =
                 MarkerOf(analysis.mode)
                     \o (IF analysis.arity = <<>> THEN <<>> ELSE <<"[">>)
          /\ analysis.result[2] = analysis.base
          /\ analysis.result[3] =
                 (IF analysis.arity = <<>> THEN <<>>
                  ELSE <<";">> \o analysis.arity \o <<"]">>)
    /\ analysis.stage = "again" =>
          analysis.again = << <<>>, analysis.result[2], <<>> >>

\* the mutable reference to an array of A has been analyzed, and the base
\* name A analyzed again
C21_Witness ==
    /\ analysis.stage = "again"
    /\ analysis.mode = "refmut"
    /\ analysis.arity = <<" ","2">>
    /\ analysis.result = << <<"&","m","u","t"," ","[">>, n_A, <<";"," ","2","]">> >>
    /\ analysis.again = << <<>>, n_A, <<>> >>

(***************************************************************************)
(* Determinism and declaration order.                                      *)
(***************************************************************************)
\* the names of the units of the kind, in the order of the text
UnitNames(units, kind) ==
    [ i \in 1..Len(SelectSeq(units, LAMBDA u : u.kind = kind)) |->
        SelectSeq(units, LAMBDA u : u.kind = kind)[i].name ]

\* the unit is the definition of a struct or of an enum
IsDefinition(u) == u.kind \in {"struct", "enum"}

\* the names of the struct and enum definitions, in the order of the text
DefinitionNames(units) ==
    [ i \in 1..Len(SelectSeq(units, IsDefinition)) |-> SelectSeq(units, IsDefinition)[i].name ]

\* the sequence s without the elements that are not in keep
Restrict(s, keep) == SelectSeq(s, LAMBDA x : x \in keep)

\* the names of the interchange functions of the constructors and then of
\* the methods of the class
MemberFnNames(c) ==
    [ i \in 1..Len(c.constructors) |-> CFnName(prefix \o c.name, c.constructors[i].name) ]
    \o [ i \in 1..Len(c.functions) |-> CFnName(prefix \o c.name, c.functions[i].name) ]

\* the interchange functions of the members of the classes that no override
\* of the interchange stage replaces, from position <<m, k>> on, in
\* declaration order
RECURSIVE DeclaredFnNames(_, _)
DeclaredFnNames(m, k) ==
    IF m > Len(apiData) THEN <<>>
    ELSE IF k > Len(apiData[m].classes) THEN DeclaredFnNames(m + 1, 1)
    ELSE (IF DllReplaced(m, k) THEN <<>> ELSE MemberFnNames(ClassAt(m, k)))
         \o DeclaredFnNames(m, k + 1)

\* the names of the files of the binding layer in declaration order
DeclaredFileNames ==
    <<dll_rs, lib_rs>> \o [ m \in 1..Len(apiData) |-> apiData[m].name \o s_rs ]

\* the unit opens the text of a class in the file of its module: it is the
\* override text of the class, or its re-export
IsClassHead(u) ==
    (u.kind = "patch" /\ Len(u.key) = 2) \/ (u.kind = "use" /\ u.body = "pub_use")

ClassHeads(units) ==
    [ i \in 1..Len(SelectSeq(units, IsClassHead)) |-> SelectSeq(units, IsClassHead)[i].name ]

\* the import units of the file of module m
ImportUnits(m) ==
    { u \in { FileUnits(api_code, apiData[m].name \o s_rs)[i] :
                i \in 1..Len(FileUnits(api_code, apiData[m].name \o s_rs)) } :
        u.body = "imports" }

\* C22: a complete run has written the same text whatever the order in
\* which the interpreter iterated its sets: every import line of every
\* module is the line that any other iteration order gives. And the text
\* follows the declaration order of the schema: the files of the modules;
\* the modules named in lib.rs; in the file of a module its classes; in the
\* interchange artifact the functions of the constructors and then of the
\* methods of each class, class by class and module by module; and in
\* dll.rs the struct and enum definitions in the order of the sequencer.
C22_DeterministicInDeclarationOrder ==
    pc = "done" =>
        /\ \A m \in 1..Len(apiData) :
              \A u \in ImportUnits(m) :
                  \A h \in HashOrders({ p[2] : p \in u.imports }) :
                      u.lines = ImportLines(apiData, apiData[m], u.imports, h)
        /\ [ i \in 1..Len(api_code) |-> api_code[i].name ] = DeclaredFileNames
        /\ UnitNames(FileUnits(api_code, lib_rs), "mod")
              = [ m \in 1..Len(apiData) |-> apiData[m].name ]
        /\ \A m \in 1..Len(apiData) :
              ClassHeads(FileUnits(api_code, apiData[m].name \o s_rs))
                  = [ k \in 1..Len(apiData[m].classes) |-> apiData[m].classes[k].name ]
        /\ Restrict(UnitNames(code, "fn"),
                    { DeclaredFnNames(1, 1)[i] : i \in 1..Len(DeclaredFnNames(1, 1)) })
              = DeclaredFnNames(1, 1)
        /\ DefinitionNames(FileUnits(api_code, dll_rs))
              = Restrict([ i \in 1..Len(sorted_class_map) |-> sorted_class_map[i].name ],
                         { DefinitionNames(FileUnits(api_code, dll_rs))[i] :
                             i \in 1..Len(DefinitionNames(FileUnits(api_code, dll_rs))) })

\* a complete run on three modules: the method of the class of the last
\* module takes a class of the second module and then a class of the first,
\* and the import lines follow in that order
C22_Witness ==
    /\ pc = "done"
    /\ Len(apiData) = 3
    /\ \E u \in ImportUnits(3) :
          /\ Len(u.lines) = 2
          /\ u.lines[1].module = apiData[2].name
          /\ u.lines[2].module = apiData[1].name

(***************************************************************************)
(* Properties of the sequencer, continued.                                  *)
(***************************************************************************)
\* the entry needs no other layout: it is a typedef, the wrapper of a handle
\* (the single field ptr: *mut c_void), a struct whose fields all have a
\* primitive base type, or an enum whose payloads all have
NeedsNoLayout(clazz) ==
    \/ found_c_is_typedef(clazz)
    \/ found_c_is_boxed_object(clazz)
    \/ /\ "struct" \in clazz.keys
       /\ \A i \in 1..Len(clazz.struct) :
             analyze_type(clazz.struct[i].type)[2] \in basic_types
    \/ /\ "struct" \notin clazz.keys
       /\ "enum" \in clazz.keys
       /\ \A i \in 1..Len(clazz.enum) :
             clazz.enum[i].has_type => analyze_type(clazz.enum[i].type)[2] \in basic_types

\* C23: when the first scan of sort_structs_map is over, every entry that
\* needs no other layout is admitted; and no entry that a later pass admits
\* stands before such an entry in the admitted map.
C23_PassZeroAdmission ==
    /\ (pc = "sort_loop" /\ iteration_count = 0) =>
          \A i \in 1..Len(structs_map) :
              NeedsNoLayout(structs_map[i]) => structs_map[i].name \in Keys(sorted_class_map)
    /\ pc \in {"sort_loop", "sorted"} =>
          \A i, j \in 1..Len(sorted_class_map) :
              (i < j /\ NeedsNoLayout(sorted_class_map[j]))
                  => NeedsNoLayout(sorted_class_map[i])

(***************************************************************************)
(* Module-scope overrides of the binding layer.                             *)
(***************************************************************************)
\* the unit belongs to the default text of a class in the file of a module:
\* its re-export, its functions or its implementations
IsDefaultClassUnit(u) ==
    \/ (u.kind = "use" /\ u.body = "pub_use")
    \/ u.kind \in {"fn", "impl"}

\* C24: when the binding override table has an entry for a module, the file
\* of the module holds the text of the entry once and none of the default
\* text of the classes of the module.
C24_ModuleOverrideReplacesDefault ==
    pc = "done" =>
        \A m \in 1..Len(apiData) :
            <<apiData[m].name>> \in rust_api_patches
                => /\ KeyCount(FileUnits(api_code, apiData[m].name \o s_rs),
                               <<apiData[m].name>>) = 1
                   /\ \A i \in 1..Len(FileUnits(api_code, apiData[m].name \o s_rs)) :
                         ~ IsDefaultClassUnit(FileUnits(api_code, apiData[m].name \o s_rs)[i])

(***************************************************************************)
(* Receiver lowering.                                                       *)
(***************************************************************************)
\* the first parameter a receiver of the tag becomes
LoweredReceiver(tag, c) ==
    [ name |-> (IF tag = <<"m","u","t"," ","v","a","l","u","e">>
                THEN <<"m","u","t"," ">> ELSE <<>>) \o Lower(c.name),
      type |-> (IF tag = <<"r","e","f">> THEN <<"&">>
                ELSE IF tag = <<"r","e","f","m","u","t">> THEN <<"&","m","u","t"," ">>
                ELSE <<>>) \o prefix \o c.name ]

\* the methods of the class that declare arguments
MethodsWithArgs(c) ==
    { c.functions[i] : i \in { k \in 1..Len(c.functions) :
                                 /\ "fn_args" \in c.functions[k].keys
                                 /\ Len(c.functions[k].fn_args) > 0 } }

\* C25: in a complete run a method whose first argument is a receiver tag
\* is registered with a first parameter of the boundary type of its class in
\* the mode of the tag, followed by its other arguments; a method whose first
\* argument is an ordinary argument is registered with exactly its declared
\* arguments; and a run never fails with the wrong-receiver error unless some
\* method declares a receiver whose tag is none of value, mut value, ref,
\* refmut.
C25_ReceiverLowering ==
    /\ pc = "done" =>
          \A p \in { q \in ClassPositions : ~ DllReplaced(q[1], q[2]) } :
              \A f \in MethodsWithArgs(ClassAt(p[1], p[2])) :
                  /\ RegisteredArgs(CFnName(prefix \o ClassAt(p[1], p[2]).name, f.name)) # {}
                  /\ \A args \in RegisteredArgs(CFnName(prefix \o ClassAt(p[1], p[2]).name,
                                                        f.name)) :
                        IF f.fn_args[1].name = n_self
                        THEN /\ Len(args) = Len(f.fn_args)
                             /\ args[1] = LoweredReceiver(f.fn_args[1].type, ClassAt(p[1], p[2]))
                        ELSE [ i \in 1..Len(args) |-> args[i].name ]
                                 = [ i \in 1..Len(f.fn_args) |-> f.fn_args[i].name ]
    /\ (pc = "raised" /\ exception = E_WrongSelfValue) =>
          \E p \in ClassPositions :
              \E f \in MethodsWithArgs(ClassAt(p[1], p[2])) :
                  f.fn_args[1].name = n_self /\ f.fn_args[1].type \notin ReceiverTags

(***************************************************************************)
(* The function surface of the two layers.                                  *)
(***************************************************************************)
\* the suffix of the interchange function an implementation calls
CalledSuffix(body) ==
    IF body = "Drop" THEN s_delete
    ELSE IF body = "Clone_deep_copy" THEN s_deep_copy
    ELSE IF body = "Debug" THEN s_fmt_debug
    ELSE IF body = "PartialEq" THEN s_partial_eq
    ELSE IF body = "PartialOrd" THEN s_partial_cmp
    ELSE IF body = "Ord" THEN s_cmp
    ELSE s_hash

\* the interchange functions the implementations of the file call; the
\* implementations of a module file name the class, those of dll.rs the
\* prefixed class
CalledByImpls(units, pre) ==
    { to_snake_case(pre \o units[i].name) \o CalledSuffix(units[i].body)
        : i \in { k \in 1..Len(units) :
                    /\ units[k].kind = "impl"
                    /\ units[k].body \in {"Drop", "Clone_deep_copy", "Debug", "PartialEq",
                                          "PartialOrd", "Ord", "Hash"} } }

\* the interchange functions the default wrappers of the members of the
\* class at <<m, k>> call
CalledByMembers(m, k) ==
    IF ClassPatched(rust_api_patches, "rust", apiData[m].name, ClassAt(m, k))
       \/ ~ should_emit_impl(ClassAt(m, k))
    THEN {}
    ELSE { CFnName(prefix \o ClassAt(m, k).name, f.name)
             : f \in { g \in MembersOf(ClassAt(m, k)) :
                         HasDefaultWrapper(FileUnits(api_code, apiData[m].name \o s_rs),
                                           g.name) } }

\* C26: when the run is complete, every interchange function that the
\* binding layer calls, from the default wrapper of a constructor or method
\* or from an implementation of Drop, Clone, Debug, PartialEq, PartialOrd,
\* Ord or Hash, is registered in functions_map.
C26_CalledFunctionsAreRegistered ==
    pc = "done" =>
        /\ CalledByImpls(FileUnits(api_code, dll_rs), <<>>) \subseteq Keys(functions_map)
        /\ \A m \in 1..Len(apiData) :
              CalledByImpls(FileUnits(api_code, apiData[m].name \o s_rs), prefix)
                  \subseteq Keys(functions_map)
        /\ \A p \in ClassPositions : CalledByMembers(p[1], p[2]) \subseteq Keys(functions_map)

(***************************************************************************)
(* Fields that name an entity by its alias.                                 *)
(***************************************************************************)
\* the field or payload types from which the layout of the class is registered
LayoutTypes(c) ==
    IF FieldsAreRead(c) THEN StructFieldTypes(c)
    ELSE IF PayloadsAreRead(c) THEN EnumPayloadTypes(c)
    ELSE {}

\* the positions of the class the registry resolves the base name of t to
ResolvedPositions(t) ==
    { p \in ClassPositions :
        search_for_class_by_rust_class_name(apiData, analyze_type(t)[2])
            = << apiData[p[1]].name, ClassAt(p[1], p[2]).name >> }

\* in the registry, the class at p holds a value of the class at q
RegistryEmbeds(p, q) ==
    \E t \in LayoutTypes(ClassAt(p[1], p[2])) :
        /\ analyze_type(t)[1] \in { <<>>, <<"[">> }
        /\ q \in ResolvedPositions(t)

RECURSIVE RegistryReach(_)
RegistryReach(from) ==
    LET more == from \cup { q \in ClassPositions : \E p \in from : RegistryEmbeds(p, q) }
    IN  IF more = from THEN from ELSE RegistryReach(more)

RegistryAcyclic ==
    \A p \in ClassPositions :
        p \notin RegistryReach({ q \in ClassPositions : RegistryEmbeds(p, q) })

\* a field or payload of the class at p names the class at q by its alias
RefersByAlias(p, q) ==
    \E t \in LayoutTypes(ClassAt(p[1], p[2])) :
        /\ q \in ResolvedPositions(t)
        /\ analyze_type(t)[2] # ClassAt(q[1], q[2]).name
        /\ analyze_type(t)[2] = ClassAt(q[1], q[2]).rust_class_name

\* the index of the key in the sorted map, 0 when it is absent
SortedIndex(key) ==
    IF key \in Keys(sorted_class_map)
    THEN CHOOSE i \in 1..Len(sorted_class_map) : sorted_class_map[i].name = key
    ELSE 0

\* C27: on a schema without a value-embedding cycle in which a field or
\* payload names a stack-allocated entity by its alias, sort_structs_map
\* does not raise the cyclic-dependency error, and when it returns the
\* entity referred to stands before the entity that refers to it.
C27_AliasSequencing ==
    \A p, q \in ClassPositions :
        ( /\ RegistryAcyclic
          /\ RefersByAlias(p, q)
          /\ LayoutTypes(ClassAt(q[1], q[2])) # {}
          /\ \A r \in ClassPositions : ~ DllReplaced(r[1], r[2]) )
        => /\ exception # E_InfiniteRecursion
           /\ pc \in {"sorted", "generate_rust_api", "done"} =>
                 /\ SortedIndex(prefix \o ClassAt(q[1], q[2]).name) > 0
                 /\ SortedIndex(prefix \o ClassAt(q[1], q[2]).name)
                       < SortedIndex(prefix \o ClassAt(p[1], p[2]).name)

\* entry a refers to entry b, and every field or payload of a that names b
\* carries a reference or pointer marker
RefersOnlyBehindPointer(a, b) ==
    /\ \E t \in FieldTypes(a) : prefix \o analyze_type(t)[2] = b.name
    /\ ~ EmbedsByValue(a, b)

\* C28: on a struct map in which two entries refer to each other behind
\* pointers or references only, and whose types are all declared and free
\* of value-embedding cycles, sort_structs_map does not raise the
\* cyclic-dependency error.
C28_PointerCycleIsSequenced ==
    ( /\ AllTypesDeclared(structs_map)
      /\ EmbeddingAcyclic(structs_map)
      /\ \E i, j \in 1..Len(structs_map) :
            /\ i # j
            /\ RefersOnlyBehindPointer(structs_map[i], structs_map[j])
            /\ RefersOnlyBehindPointer(structs_map[j], structs_map[i]) )
    => exception # E_InfiniteRecursion

(***************************************************************************)
(* The sequencer moves entries, it neither makes nor loses them.            *)
(***************************************************************************)
\* the number of entries of map equal to entry
Occurrences(map, entry) == Cardinality({ i \in 1..Len(map) : map[i] = entry })

\* every entry of structs_map is once in the admitted map or once in the
\* map of the entries not yet admitted, never in both, and the two maps
\* hold nothing else
SequencerPartition ==
    /\ Len(sorted_class_map) + Len(classes_not_found) = Len(structs_map)
    /\ \A i \in 1..Len(structs_map) :
          Occurrences(sorted_class_map, structs_map[i])
              + Occurrences(classes_not_found, structs_map[i]) = 1

\* the admitted map after the step starts with the admitted map before it
AdmittedOnlyGrows ==
    /\ Len(sorted_class_map) <= Len(sorted_class_map')
    /\ SubSeq(sorted_class_map', 1, Len(sorted_class_map)) = sorted_class_map

EveryArgumentIsLowered ==
    \A p \in ClassPositions :
        /\ ~ DllReplaced(p[1], p[2])
        /\ \A f \in MembersOf(ClassAt(p[1], p[2])) :
              ~ MemberPatched(dll_patches, "dll", apiData[p[1]].name,
                              ClassAt(p[1], p[2]).name, f)

\* C30: on a schema whose constructors and methods all went through
\* fn_args_c_api, so that generate_rust_dll accepted every argument type,
\* the binding stage never raises a type-not-found error, neither from
\* get_all_imports nor from the lowering of the arguments; the argument
\* types of the form &T and &mut T are among them.
C30_StagesResolveTheSameTypes ==
    ( /\ EveryArgumentIsLowered
      /\ pc = "raised" )
    => exception \notin {E_ImportNotFound, E_ArgTypeNotFound}


=============================================================================
